---------------------------- MODULE Spec2Model ----------------------------
(***************************************************************************)
(* Model of the docrag pipeline core:                                      *)
(*   - src/src/14_index.py   : parse_front_matter, chunk_markdown,         *)
(*                             _smart_split, embed_texts                   *)
(*   - src/src/13_add_metada.py : build_yaml_from_record, _yaml_escape     *)
(*   - src/input/input.py, src/input/utils.py, src/input/check_pdf.py :    *)
(*                             the ingest reconciliation loop              *)
(*   - src/src/14_index.py   : main, paper_exists, insert_paper_meta,      *)
(*                             insert_chunks (the indexer runs)            *)
(*   - src/main.py           : the project CLI                             *)
(*   - src/src/13_add_metada.py : process_file on one -RAG.md, and the     *)
(*                             indexer reading that file                   *)
(*   - src/input/input.py    : two ingest runs on one registry file        *)
(* Python str values are TLA+ strings; a list is a sequence.               *)
(***************************************************************************)
EXTENDS Integers, Sequences, FiniteSets, TLC

VARIABLES
    \* ---- chunk_markdown (src/src/14_index.py:155-196)
    md_body,        \* the md_body argument
    max_text_len,   \* the max_text_len argument
    lines,          \* md_body.splitlines()
    i,              \* loop index into lines
    section_stack,  \* list of heading titles
    block_lines,    \* pending non-heading lines
    chunks,         \* emitted Chunk records
    chunk_idx,      \* next chunk_index
    cm_pc,          \* "idle" | "loop" | "done"
    \* ---- embed_texts (src/src/14_index.py:214-242)
    texts,          \* the texts argument
    batch_size,     \* the batch_size argument
    em_i,           \* start of the current batch (0-based)
    vecs,           \* vectors collected so far
    em_pc,          \* "idle" | "loop" | "done"
    \* ---- build_yaml_from_record (src/src/13_add_metada.py:81-120) and
    \* ---- parse_front_matter (src/src/14_index.py:51-95)
    fm_rec,         \* the registry record the header is built from
    md_text,        \* the md_text argument of parse_front_matter
    fm_lines,       \* md_text.splitlines()
    fm_i,           \* loop index into fm_lines
    meta,           \* the mapping being accumulated
    current_key,    \* "" stands for None (a matched key is never empty)
    current_list,   \* [isNone, items]
    fm_result,      \* the returned (meta, body)
    fm_pc,          \* "idle" | "build" | "start" | "loop" | "done"
    \* ---- the ingest run (src/input/input.py:65-218)
    db,             \* input_pdf.json: the registry as saved
    dir,            \* the PDF files on disk: [name, topic, content]
    items,          \* the registry in memory
    changed,        \* the changed flag
    all_pdfs,       \* the files listed at the start of the run
    in_i,           \* loop index into all_pdfs
    runs,           \* runs started so far
    step,           \* the last iteration: [action, res, target, before]
    in_pc,          \* "idle" | "start" | "loop" | "done"
    \* ---- the indexer runs (src/src/14_index.py:540-706)
    ix_files,       \* the -RAG.md files of the run
    ix_force,       \* args.force_reindex_chunks
    ix_i,           \* loop index into ix_files
    papers_meta,    \* the rows of the papers_meta collection
    paper_chunks,   \* the rows of the chunks collection
    embed_calls,    \* documents sent to the embedding service so far
    ok_log,         \* documents whose "[ok] Indexed" line was printed
    ix_runs,        \* runs started so far
    ix_step,        \* the last iteration: [action, doc, doi, citation_key, title]
    ix_pc,          \* "idle" | "start" | "loop" | "done" | "raised"
    \* ---- the project CLI (src/main.py:123-195)
    cli_command,    \* args.command
    cli_rest,       \* the unknown arguments kept by parse_known_args
    cli_k,          \* calls of the branch made so far
    cli_trace,      \* the steps whose main ran: [step, argv, outcome]
    cli_pc,         \* "idle" | "run" | "done" | "raised"
    \* ---- add-metadata on one -RAG.md (src/src/13_add_metada.py:130-144) and
    \* ---- the indexer reading it (src/src/14_index.py:598-636)
    am_file,        \* the content of the -RAG.md file
    am_reg,         \* the registry add-metadata loaded
    am_key,         \* the name of the paper folder of the file
    am_n,           \* process_file calls made on the file so far
    am_once,        \* the content left by the first call that wrote the file
    am_id,          \* the identity the indexer resolved for the file
    am_pc,          \* "idle" | "ready" | "indexed"
    \* ---- two ingest runs on one registry (src/input/input.py:65-218)
    race_db,        \* input_pdf.json
    race_dir,       \* the PDF files on disk
    race_run,       \* per run: [pc, items, changed, all_pdfs, i]
    race_log,       \* the loads and saves in the order they happened
    race_drops      \* PDFs copied into the folder so far

cmVars == <<md_body, max_text_len, lines, i, section_stack, block_lines,
            chunks, chunk_idx, cm_pc>>
emVars == <<texts, batch_size, em_i, vecs, em_pc>>
fmVars == <<fm_rec, md_text, fm_lines, fm_i, meta, current_key, current_list,
            fm_result, fm_pc>>

inVars == <<db, dir, items, changed, all_pdfs, in_i, runs, step, in_pc>>

ixVars == <<ix_files, ix_force, ix_i, papers_meta, paper_chunks, embed_calls,
            ok_log, ix_runs, ix_step, ix_pc>>
clVars == <<cli_command, cli_rest, cli_k, cli_trace, cli_pc>>
amVars == <<am_file, am_reg, am_key, am_n, am_once, am_id, am_pc>>
rcVars == <<race_db, race_dir, race_run, race_log, race_drops>>

vars == <<cmVars, emVars, fmVars, inVars, ixVars, clVars, amVars, rcVars>>

\* the components a run does not use stay idle
CMIdle ==
    /\ md_body = "" /\ max_text_len = 0 /\ lines = <<>> /\ i = 0
    /\ section_stack = <<>> /\ block_lines = <<>> /\ chunks = <<>>
    /\ chunk_idx = 0 /\ cm_pc = "idle"
EMIdle ==
    /\ texts = <<>> /\ batch_size = 0 /\ em_i = 0 /\ vecs = <<>> /\ em_pc = "idle"

\* {} (an empty dict)
EmptyMeta == <<>>
\* None for a list
NoneList == [isNone |-> TRUE, items |-> <<>>]
\* csl of a record without CSL-JSON (None, or {})
NoCsl ==
    [title |-> "", DOI |-> "", container_title |-> "", volume |-> "",
     issue |-> "", page |-> "", URL |-> "", issued |-> <<>>, author |-> <<>>]
\* a record with every field empty
NoRecord == [title |-> "", doi |-> "", citation_key |-> "", csl |-> NoCsl]
\* no loop iteration yet
NoStep ==
    [action |-> "none",
     res |-> [title |-> "", doi |-> "", citation_key |-> "", csl |-> NoCsl],
     target |-> 0, before |-> <<>>]
INIdle ==
    /\ db = <<>> /\ dir = {} /\ items = <<>> /\ changed = FALSE /\ all_pdfs = <<>>
    /\ in_i = 0 /\ runs = 0 /\ step = NoStep /\ in_pc = "idle"
\* no indexer iteration yet
NoIxStep == [action |-> "none", doc |-> "", doi |-> "", citation_key |-> "", title |-> ""]
IXIdle ==
    /\ ix_files = <<>> /\ ix_force = FALSE /\ ix_i = 0 /\ papers_meta = <<>>
    /\ paper_chunks = <<>> /\ embed_calls = 0 /\ ok_log = {} /\ ix_runs = 0
    /\ ix_step = NoIxStep /\ ix_pc = "idle"
CLIdle ==
    /\ cli_command = "" /\ cli_rest = <<>> /\ cli_k = 0 /\ cli_trace = <<>>
    /\ cli_pc = "idle"
FMIdle ==
    /\ fm_rec = NoRecord /\ md_text = "" /\ fm_lines = <<>> /\ fm_i = 0
    /\ meta = EmptyMeta /\ current_key = "" /\ current_list = NoneList
    /\ fm_result = [meta |-> EmptyMeta, body |-> ""] /\ fm_pc = "idle"
\* no identity resolved yet
NoId == [doi |-> "", citation_key |-> "", title |-> ""]
AMIdle ==
    /\ am_file = "" /\ am_reg = <<>> /\ am_key = "" /\ am_n = 0 /\ am_once = ""
    /\ am_id = NoId /\ am_pc = "idle"
\* a run that has not started
NoRun == [pc |-> "idle", items |-> <<>>, changed |-> FALSE, all_pdfs |-> <<>>, i |-> 0]
RCIdle ==
    /\ race_db = <<>> /\ race_dir = {} /\ race_run = <<NoRun, NoRun>>
    /\ race_log = <<>> /\ race_drops = 0

-----------------------------------------------------------------------------
(* Bounds of the model *)

MaxLines == 3
MaxChunkLen == 4
MaxTexts == 4
MaxBatch == 3
MaxFMLines == 4
MaxAuthors == 2
MaxPdfs == 2
MaxRuns == 2

-----------------------------------------------------------------------------
(* Python str primitives *)

Ch(s, k) == SubSeq(s, k, k)

Min(S) == CHOOSE x \in S : \A y \in S : x <= y

\* characters str.strip() and the regex class \s treat as whitespace
Whitespace == {" ", "\t", "\n", "\r", "\f"}
IsSpace(c) == c \in Whitespace

\* str.splitlines() line boundaries
LineBreaks == {"\n", "\r", "\f"}

AllSpace(s) == \A k \in 1..Len(s) : IsSpace(Ch(s, k))

\* number of leading / trailing whitespace characters of s[p..q]
RECURSIVE FirstNonSpace(_, _)
FirstNonSpace(s, p) ==
    IF p > Len(s) \/ ~IsSpace(Ch(s, p)) THEN p ELSE FirstNonSpace(s, p + 1)
RECURSIVE LastNonSpace(_, _)
LastNonSpace(s, q) ==
    IF q < 1 \/ ~IsSpace(Ch(s, q)) THEN q ELSE LastNonSpace(s, q - 1)

\* str.strip() (str is bound to its value once, as s)
Strip(str) ==
    CHOOSE r \in {SubSeq(s, FirstNonSpace(s, 1), LastNonSpace(s, Len(s))) : s \in {str}} :
        TRUE

\* str.splitlines(): split at \n, \r\n, \r, \f; no empty last line after a
\* final terminator
RECURSIVE SplitLinesFrom(_, _)
SplitLinesFrom(s, p) ==
    IF p > Len(s) THEN <<>>
    ELSE LET B == {k \in p..Len(s) : Ch(s, k) \in LineBreaks}
         IN  IF B = {} THEN <<SubSeq(s, p, Len(s))>>
             ELSE LET j == Min(B)
                      n == IF Ch(s, j) = "\r" /\ j < Len(s) /\ Ch(s, j + 1) = "\n"
                           THEN j + 2 ELSE j + 1
                  IN  <<SubSeq(s, p, j - 1)>> \o SplitLinesFrom(s, n)
splitlines(s) == SplitLinesFrom(s, 1)

\* sep.join(list)
RECURSIVE Join(_, _)
Join(sep, l) ==
    IF l = <<>> THEN ""
    ELSE IF Len(l) = 1 THEN l[1]
    ELSE l[1] \o sep \o Join(sep, Tail(l))


-----------------------------------------------------------------------------
(* Markdown chunking: src/src/14_index.py:98-196 *)

\* HEADING_RE = ^(?P<h>#{1,6})\s+(?P<title>.+?)\s*$
\* the run of '#' at the start of the line
RECURSIVE HashRunFrom(_, _)
HashRunFrom(line, p) ==
    IF p > Len(line) \/ Ch(line, p) # "#" THEN p - 1 ELSE HashRunFrom(line, p + 1)
HashRun(line) == HashRunFrom(line, 1)

\* the regex matches iff 1..6 hashes are followed by a whitespace character
\* and at least one more character (of any kind)
HeadingMatch(line) ==
    LET h == HashRun(line)
    IN  /\ h >= 1 /\ h <= 6
        /\ Len(line) >= h + 2
        /\ IsSpace(Ch(line, h + 1))

\* len(m.group("h"))
HeadingLevel(line) == HashRun(line)

\* m.group("title").strip(): what follows the hashes, stripped (the empty
\* string when only whitespace follows them)
HeadingTitle(line) == Strip(SubSeq(line, HashRun(line) + 1, Len(line)))

\* IMAGE_RE = !\[[^\]]*\]\(([^\)]+)\) ; findall returns the group of every
\* non-overlapping match, leftmost first
ImageMatchAt(s, p) ==
    /\ p + 1 <= Len(s)
    /\ Ch(s, p) = "!"
    /\ Ch(s, p + 1) = "["
    /\ LET RB == {k \in (p + 2)..Len(s) : Ch(s, k) = "]"}
       IN  /\ RB # {}
           /\ LET j == Min(RB)
              IN  /\ j + 1 <= Len(s)
                  /\ Ch(s, j + 1) = "("
                  /\ LET RP == {k \in (j + 2)..Len(s) : Ch(s, k) = ")"}
                     IN  RP # {} /\ Min(RP) > j + 2

\* position of the ')' closing the match that starts at p
ImageMatchEnd(s, p) ==
    LET j == Min({k \in (p + 2)..Len(s) : Ch(s, k) = "]"})
    IN  Min({k \in (j + 2)..Len(s) : Ch(s, k) = ")"})

ImageMatchGroup(s, p) ==
    LET j == Min({k \in (p + 2)..Len(s) : Ch(s, k) = "]"})
    IN  SubSeq(s, j + 2, ImageMatchEnd(s, p) - 1)

RECURSIVE ImageFindAllFrom(_, _)
ImageFindAllFrom(s, p) ==
    LET M == {k \in p..Len(s) : ImageMatchAt(s, k)}
    IN  IF M = {} THEN <<>>
        ELSE LET k == Min(M)
             IN  <<ImageMatchGroup(s, k)>> \o ImageFindAllFrom(s, ImageMatchEnd(s, k) + 1)
ImageFindAll(s) == ImageFindAllFrom(s, 1)

\* _split_paragraphs: runs of non-blank lines
RECURSIVE SplitParagraphsAcc(_, _, _)
SplitParagraphsAcc(ls, buf, paras) ==
    IF ls = <<>>
    THEN IF buf # <<>> THEN Append(paras, buf) ELSE paras
    ELSE IF Strip(Head(ls)) = ""
         THEN SplitParagraphsAcc(Tail(ls), <<>>,
                                 IF buf # <<>> THEN Append(paras, buf) ELSE paras)
         ELSE SplitParagraphsAcc(Tail(ls), Append(buf, Head(ls)), paras)
_split_paragraphs(ls) == SplitParagraphsAcc(ls, <<>>, <<>>)

\* re.split(r"(?<=[.!?])\s+", text): a separator is a maximal whitespace run
\* that directly follows '.', '!' or '?'
SentenceEnd == {".", "!", "?"}

SepStarts(text) ==
    {p \in 2..Len(text) : IsSpace(Ch(text, p)) /\ Ch(text, p - 1) \in SentenceEnd}

\* last position of the whitespace run starting at p
RunEnd(text, p) == FirstNonSpace(text, p) - 1

RECURSIVE SentencesFrom(_, _)
SentencesFrom(text, p) ==
    LET S == {q \in SepStarts(text) : q >= p}
    IN  IF S = {} THEN <<SubSeq(text, p, Len(text))>>
        ELSE LET q == Min(S)
             IN  <<SubSeq(text, p, q - 1)>> \o SentencesFrom(text, RunEnd(text, q) + 1)
Sentences(text) == SentencesFrom(text, 1)

\* the greedy packing loop of _smart_split (lines 133-144)
RECURSIVE PackSentences(_, _, _, _)
PackSentences(ss, cur, parts, max_len) ==
    IF ss = <<>>
    THEN IF cur # "" THEN Append(parts, cur) ELSE parts
    ELSE LET s == Head(ss)
         IN  IF cur = ""
             THEN PackSentences(Tail(ss), s, parts, max_len)
             ELSE IF Len(cur) + 1 + Len(s) <= max_len
                  THEN PackSentences(Tail(ss), cur \o " " \o s, parts, max_len)
                  ELSE PackSentences(Tail(ss), s, Append(parts, cur), max_len)

\* mutant of HardCut: every slice is stripped
HardCut_Stripped(p, max_len) ==
    [k \in 1..((Len(p) + max_len - 1) \div max_len) |->
        Strip(SubSeq(p, (k - 1) * max_len + 1,
                     IF k * max_len <= Len(p) THEN k * max_len ELSE Len(p)))]

\* p[i : i + max_len] for i in range(0, len(p), max_len)
HardCut(p, max_len) ==
    [k \in 1..((Len(p) + max_len - 1) \div max_len) |->
        SubSeq(p, (k - 1) * max_len + 1,
               IF k * max_len <= Len(p) THEN k * max_len ELSE Len(p))]

\* the second loop of _smart_split (lines 145-152)
RECURSIVE CutParts(_, _)
CutParts(parts, max_len) ==
    IF parts = <<>> THEN <<>>
    ELSE (IF Len(Head(parts)) <= max_len
          THEN <<Head(parts)>>
          ELSE HardCut(Head(parts), max_len))
         \o CutParts(Tail(parts), max_len)

\* mutant of _smart_split: the second loop (the hard cut) is left out
_smart_split_NoHardCut(text, max_len) ==
    IF Len(text) <= max_len THEN <<text>>
    ELSE PackSentences(Sentences(text), "", <<>>, max_len)

_smart_split(text, max_len) ==
    IF Len(text) <= max_len THEN <<text>>
    ELSE CutParts(PackSentences(Sentences(text), "", <<>>, max_len), max_len)

\* mutant of ParaChunks: chunk_idx is advanced once per paragraph, not once
\* per part
ParaChunks_IndexPerParagraph(parts, section_title, idx, imgs) ==
    [k \in 1..Len(parts) |->
        [text |-> parts[k], section |-> section_title,
         chunk_index |-> idx, image_refs |-> imgs]]

\* Chunk(text, section, chunk_index, image_refs) for every part of one
\* paragraph, numbered from idx
ParaChunks(parts, section_title, idx, imgs) ==
    [k \in 1..Len(parts) |->
        [text |-> parts[k], section |-> section_title,
         chunk_index |-> idx + k - 1, image_refs |-> imgs]]

\* the loop of process_block over the paragraphs (lines 171-178): the chunks
\* of paragraphs paras, numbered from idx
RECURSIVE BlockChunks(_, _, _, _)
BlockChunks(paras, section_title, idx, max_len) ==
    IF paras = <<>> THEN <<>>
    ELSE LET para_text == Strip(Join("\n", Head(paras)))
             new == IF para_text = "" THEN <<>>
                    ELSE ParaChunks(_smart_split(para_text, max_len), section_title,
                                    idx, ImageFindAll(para_text))
         IN  new \o BlockChunks(Tail(paras), section_title, idx + Len(new), max_len)

\* process_block tagging every chunk with the empty section
process_block_Untagged(blines, section_title, idx, max_len) ==
    IF blines = <<>> THEN <<>>
    ELSE BlockChunks(_split_paragraphs(blines), "", idx, max_len)

\* process_block(blines, section_title): the chunks it appends
process_block(blines, section_title, idx, max_len) ==
    IF blines = <<>> THEN <<>>
    ELSE BlockChunks(_split_paragraphs(blines), section_title, idx, max_len)

\* current_section()
current_section(stack) == Join(" / ", stack)

\* mutant of PopTo: the loop condition is > instead of >=
PopTo_Strict(stack, level) ==
    IF Len(stack) > level THEN SubSeq(stack, 1, level) ELSE stack

\* while len(section_stack) >= level: section_stack.pop()
PopTo(stack, level) ==
    IF Len(stack) >= level THEN SubSeq(stack, 1, level - 1) ELSE stack

-----------------------------------------------------------------------------
(* chunk_markdown as a state machine: one action per iteration of the loop *)
(* at lines 180-193, one for the final flush at lines 194-196              *)

\* the lines the bodies of the model are made of
BodyLines ==
    {"", " ", "# A", "## B", "#  ", "ab", "a. b", "x.  y", "d.", "abcdefg", " c ",
     "![i](p)"}

RECURSIVE LineSeqs(_)
LineSeqs(n) ==
    IF n = 0 THEN {<<>>}
    ELSE LET P == LineSeqs(n - 1)
         IN  P \cup {Append(l, x) : l \in P, x \in BodyLines}

\* text of n copies of s
RECURSIVE Rep(_, _)
Rep(s, n) ==
    IF n = 0 THEN ""
    ELSE IF n % 2 = 0 THEN LET h == Rep(s, n \div 2) IN h \o h
    ELSE s \o Rep(s, n - 1)

MethodsBody == "## Methods\nWe did X. We did Y.\n\n## Results\nZ happened."
NestingBody == "# A\npa\n\npa2\n## B\npb\n# C\npc"
LongBody == Rep("a", 10000)
\* a body whose first heading is of level 2
DeepFirstBody == "## B\npb\n## C\npc"

\* (md_body, max_text_len) pairs chunk_markdown is called with
ChunkInputs ==
    ({Join("\n", l) : l \in LineSeqs(MaxLines)} \X (1..MaxChunkLen))
    \cup {<<MethodsBody, 1000>>, <<NestingBody, 1000>>, <<NestingBody, 2>>,
          <<LongBody, 7000>>, <<DeepFirstBody, 1000>>}

CMInit ==
    \E inp \in ChunkInputs :
        /\ md_body = inp[1]
        /\ max_text_len = inp[2]
        /\ lines = splitlines(inp[1])
        /\ i = 0
        /\ section_stack = <<>>
        /\ block_lines = <<>>
        /\ chunks = <<>>
        /\ chunk_idx = 0
        /\ cm_pc = "loop"
        /\ EMIdle
        /\ FMIdle
        /\ INIdle
        /\ IXIdle
        /\ CLIdle
        /\ AMIdle
        /\ RCIdle

\* lines 181-190: lines[i] is a heading
CMHeading ==
    /\ cm_pc = "loop"
    /\ i < Len(lines)
    /\ HeadingMatch(lines[i + 1])
    /\ LET new == process_block(block_lines, current_section(section_stack),
                                chunk_idx, max_text_len)
       IN  /\ chunks' = chunks \o new
           /\ chunk_idx' = chunk_idx + Len(new)
    /\ block_lines' = <<>>
    /\ section_stack' = Append(PopTo(section_stack, HeadingLevel(lines[i + 1])),
                               HeadingTitle(lines[i + 1]))
    /\ i' = i + 1
    /\ UNCHANGED <<md_body, max_text_len, lines, cm_pc>>
    /\ UNCHANGED <<emVars, fmVars, inVars, ixVars, clVars, amVars, rcVars>>

\* lines 191-193: any other line joins the pending block
CMText ==
    /\ cm_pc = "loop"
    /\ i < Len(lines)
    /\ ~HeadingMatch(lines[i + 1])
    /\ block_lines' = Append(block_lines, lines[i + 1])
    /\ i' = i + 1
    /\ UNCHANGED <<md_body, max_text_len, lines, section_stack, chunks, chunk_idx, cm_pc>>
    /\ UNCHANGED <<emVars, fmVars, inVars, ixVars, clVars, amVars, rcVars>>

\* lines 194-196: the final flush and return
CMReturn ==
    /\ cm_pc = "loop"
    /\ i >= Len(lines)
    /\ LET new == process_block(block_lines, current_section(section_stack),
                                chunk_idx, max_text_len)
       IN  /\ chunks' = chunks \o new
           /\ chunk_idx' = chunk_idx + Len(new)
    /\ cm_pc' = "done"
    /\ UNCHANGED <<md_body, max_text_len, lines, i, section_stack, block_lines>>
    /\ UNCHANGED <<emVars, fmVars, inVars, ixVars, clVars, amVars, rcVars>>

CMNext == CMHeading \/ CMText \/ CMReturn

SpecChunk == CMInit /\ [][CMNext]_vars

-----------------------------------------------------------------------------
(* Properties of chunk_markdown *)

\* C1: every chunk emitted by chunk_markdown(body, L) has len(text) <= L,
\* whatever the body (no sentence boundary, short and over-long sentences).
C1_LengthBound ==
    \A k \in 1..Len(chunks) : Len(chunks[k].text) <= max_text_len

\* C1 witness: a paragraph with a short sentence followed by an over-long one
\* without boundary was packed and hard-cut.
C1_Witness ==
    /\ cm_pc = "done"
    /\ md_body = "a. b\nabcdefg"
    /\ max_text_len = 3
    /\ Len(chunks) = 4
    /\ chunks[1].text = "a."
    /\ chunks[4].text = "efg"

\* C2: the chunk_index values of the returned list are 0, 1, ..., N-1 in list
\* order.
C2_IndexSequence ==
    /\ chunk_idx = Len(chunks)
    /\ \A k \in 1..Len(chunks) : chunks[k].chunk_index = k - 1

\* C2 witness: a body with a paragraph, a heading and a split paragraph has
\* been chunked into three chunks.
C2_Witness ==
    /\ cm_pc = "done"
    /\ md_body = "ab\n# A\nabcdefg"
    /\ max_text_len = 4
    /\ Len(chunks) = 3
    /\ chunks[3].chunk_index = 2

\* the (text, section, image_refs) triples of the chunks, in order
ChunkTriples == [k \in 1..Len(chunks) |->
                    <<chunks[k].text, chunks[k].section, chunks[k].image_refs>>]

\* C4: the Methods/Results body with L = 1000 gives exactly the two chunks
\* ("We did X. We did Y.", "Methods", []) and ("Z happened.", "Results", []).
C4_MethodsResultsScenario ==
    (cm_pc = "done" /\ md_body = MethodsBody /\ max_text_len = 1000)
        => ChunkTriples = << <<"We did X. We did Y.", "Methods", <<>> >>,
                             <<"Z happened.", "Results", <<>> >> >>

\* C5: with headings H1 "A", H2 "B", H1 "C" and paragraphs under each, the
\* chunks under A have section path [A], those under B [A, B], those under C
\* [C].
C5_SectionNesting ==
    (cm_pc = "done" /\ md_body = NestingBody) =>
        /\ \E k \in 1..Len(chunks) : chunks[k].section = current_section(<<"A", "B">>)
        /\ \E k \in 1..Len(chunks) : chunks[k].section = current_section(<<"C">>)
        /\ \A k \in 1..Len(chunks) :
            LET t == chunks[k].text
                sec == chunks[k].section
            IN  /\ t \in {"pa", "pa2", "2"} => sec = current_section(<<"A">>)
                /\ t = "pb" => sec = current_section(<<"A", "B">>)
                /\ t = "pc" => sec = current_section(<<"C">>)
                /\ t \in {"pa", "pa2", "2", "pb", "pc"}

\* C5 witness: the nesting body has been chunked, its paragraph "pa2" split.
C5_Witness ==
    /\ cm_pc = "done"
    /\ md_body = NestingBody
    /\ max_text_len = 2
    /\ Len(chunks) = 5

\* a body that is one paragraph: no blank line, no heading line, no outer
\* whitespace, "\n" as the only line terminator
SingleParagraph(body) ==
    /\ body # ""
    /\ Strip(body) = body
    /\ Join("\n", splitlines(body)) = body
    /\ \A k \in 1..Len(splitlines(body)) :
        /\ ~HeadingMatch(splitlines(body)[k])
        /\ Strip(splitlines(body)[k]) # ""

\* C6: a single paragraph of length n > L without sentence boundary gives
\* ceil(n/L) chunks, each of length L except possibly the last, whose
\* concatenation is the paragraph (n = 10000, L = 7000: 7000 and 3000).
C6_HardCutFallback ==
    (/\ cm_pc = "done"
     /\ SingleParagraph(md_body)
     /\ SepStarts(md_body) = {}
     /\ Len(md_body) > max_text_len)
        => /\ Len(chunks) = (Len(md_body) + max_text_len - 1) \div max_text_len
           /\ \A k \in 1..(Len(chunks) - 1) : Len(chunks[k].text) = max_text_len
           /\ Len(chunks[Len(chunks)].text) <= max_text_len
           /\ Join("", [k \in 1..Len(chunks) |-> chunks[k].text]) = md_body
           /\ (md_body = LongBody /\ max_text_len = 7000)
                => /\ Len(chunks) = 2
                   /\ Len(chunks[1].text) = 7000
                   /\ Len(chunks[2].text) = 3000

\* C6 witness: the 10000-character paragraph has been cut with L = 7000.
C6_Witness ==
    /\ cm_pc = "done"
    /\ md_body = LongBody
    /\ max_text_len = 7000
    /\ Len(chunks) = 2

-----------------------------------------------------------------------------
(* embed_texts: src/src/14_index.py:214-242. One action per iteration of   *)
(* the batch loop, by the outcome of the batch call.                        *)

\* the texts handed to the embedding provider
TextSet == {"t1", "t2"}

RECURSIVE TextSeqs(_)
TextSeqs(n) ==
    IF n = 0 THEN {<<>>}
    ELSE LET P == TextSeqs(n - 1)
         IN  P \cup {Append(l, x) : l \in P, x \in TextSet}

\* the provider's vector for text t (list(e.values)); the provider is
\* deterministic per text
Embedding(t) == [vector_of |-> t]

\* texts[i : i + batch_size]
Batch == SubSeq(texts, em_i + 1,
                IF em_i + batch_size <= Len(texts) THEN em_i + batch_size ELSE Len(texts))

\* lines 228-241: one call per text of the batch, each vector appended
Fallback(batch) == [k \in 1..Len(batch) |-> Embedding(batch[k])]

EMInit ==
    /\ texts \in TextSeqs(MaxTexts)
    /\ batch_size \in 1..MaxBatch
    /\ em_i = 0
    /\ vecs = <<>>
    /\ em_pc = "loop"
    /\ CMIdle
    /\ FMIdle
    /\ INIdle
    /\ IXIdle
    /\ CLIdle
    /\ AMIdle
    /\ RCIdle

\* lines 221-225: the batch call returns one embedding per text, all well
\* formed
EmbedBatchOk ==
    /\ em_pc = "loop"
    /\ em_i < Len(texts)
    /\ vecs' = vecs \o [k \in 1..Len(Batch) |-> Embedding(Batch[k])]
    /\ em_i' = em_i + batch_size
    /\ UNCHANGED <<texts, batch_size, em_pc>>
    /\ UNCHANGED <<cmVars, fmVars, inVars, ixVars, clVars, amVars, rcVars>>

\* lines 221, 226-241: the batch call raises; per-item fallback
EmbedBatchRaises ==
    /\ em_pc = "loop"
    /\ em_i < Len(texts)
    /\ vecs' = vecs \o Fallback(Batch)
    /\ em_i' = em_i + batch_size
    /\ UNCHANGED <<texts, batch_size, em_pc>>
    /\ UNCHANGED <<cmVars, fmVars, inVars, ixVars, clVars, amVars, rcVars>>

\* lines 222, 228-241: the response has no (or empty) embeddings; per-item
\* fallback
EmbedBatchNoEmbeddings ==
    /\ em_pc = "loop"
    /\ em_i < Len(texts)
    /\ vecs' = vecs \o Fallback(Batch)
    /\ em_i' = em_i + batch_size
    /\ UNCHANGED <<texts, batch_size, em_pc>>
    /\ UNCHANGED <<cmVars, fmVars, inVars, ixVars, clVars, amVars, rcVars>>

\* lines 223-224, 226-241: list(e.values) raises on the item after `consumed`
\* well-formed ones, whose vectors are already in vecs; the except clause
\* removes nothing and the per-item fallback runs over the whole batch
EmbedBatchMalformedItem ==
    /\ em_pc = "loop"
    /\ em_i < Len(texts)
    /\ \E consumed \in 1..(Len(Batch) - 1) :
        vecs' = vecs \o [k \in 1..consumed |-> Embedding(Batch[k])] \o Fallback(Batch)
    /\ em_i' = em_i + batch_size
    /\ UNCHANGED <<texts, batch_size, em_pc>>
    /\ UNCHANGED <<cmVars, fmVars, inVars, ixVars, clVars, amVars, rcVars>>

\* line 242
EmbedReturn ==
    /\ em_pc = "loop"
    /\ em_i >= Len(texts)
    /\ em_pc' = "done"
    /\ UNCHANGED <<texts, batch_size, em_i, vecs>>
    /\ UNCHANGED <<cmVars, fmVars, inVars, ixVars, clVars, amVars, rcVars>>

EMNext ==
    \/ EmbedBatchOk
    \/ EmbedBatchRaises
    \/ EmbedBatchNoEmbeddings
    \/ EmbedBatchMalformedItem
    \/ EmbedReturn

SpecEmbed == EMInit /\ [][EMNext]_vars

\* C3: embed_texts returns exactly one vector per input text, the vector at
\* position i being the embedding of texts[i], for every batch size and every
\* pattern of batch-call outcomes in which the per-item fallback succeeds.
C3_OneVectorPerText ==
    em_pc = "done" =>
        /\ Len(vecs) = Len(texts)
        /\ \A k \in 1..Len(texts) : vecs[k] = Embedding(texts[k])

-----------------------------------------------------------------------------
(* Writing the header: src/src/13_add_metada.py:49-120 *)

\* str.replace(c, r) for a single character c
RECURSIVE ReplaceCharFrom(_, _, _, _)
ReplaceCharFrom(s, c, r, p) ==
    IF p > Len(s) THEN ""
    ELSE (IF Ch(s, p) = c THEN r ELSE Ch(s, p)) \o ReplaceCharFrom(s, c, r, p + 1)
ReplaceChar(str, c, r) == CHOOSE v \in {ReplaceCharFrom(s, c, r, 1) : s \in {str}} : TRUE

\* _yaml_escape: backslashes doubled, then double quotes escaped, in quotes
_yaml_escape(value) ==
    "\"" \o ReplaceChar(ReplaceChar(value, "\\", "\\\\"), "\"", "\\\"") \o "\""

\* "%0*d" of date.isoformat()
Digit(n) == Ch("0123456789", n + 1)
Pad2(n) == Digit((n \div 10) % 10) \o Digit(n % 10)
Pad4(n) == Pad2(n \div 100) \o Pad2(n % 100)

DaysInMonth(y, m) ==
    IF m = 2
    THEN IF (y % 4 = 0 /\ y % 100 # 0) \/ y % 400 = 0 THEN 29 ELSE 28
    ELSE IF m \in {4, 6, 9, 11} THEN 30 ELSE 31

\* _csl_iso_date, on the first entry of issued["date-parts"]: "" when it is
\* missing or date(y, m, d) raises
_csl_iso_date(csl) ==
    LET arr == csl.issued
    IN  IF arr = <<>> THEN ""
        ELSE LET y == arr[1]
                 m == IF Len(arr) > 1 THEN arr[2] ELSE 1
                 d == IF Len(arr) > 2 THEN arr[3] ELSE 1
             IN  IF y >= 1 /\ y <= 9999 /\ m >= 1 /\ m <= 12
                    /\ d >= 1 /\ d <= DaysInMonth(y, m)
                 THEN Pad4(y) \o "-" \o Pad2(m) \o "-" \o Pad2(d)
                 ELSE ""

\* the name of one CSL author: full, else "given family" stripped
AuthorName(a) ==
    IF Strip(a.full) # "" THEN Strip(a.full)
    ELSE Strip(Strip(a.given) \o " " \o Strip(a.family))

\* _format_authors_from_csl: the non-empty names, in order
RECURSIVE FormatAuthors(_)
FormatAuthors(as) ==
    IF as = <<>> THEN <<>>
    ELSE (IF AuthorName(Head(as)) # "" THEN <<AuthorName(Head(as))>> ELSE <<>>)
         \o FormatAuthors(Tail(as))
_format_authors_from_csl(csl) == FormatAuthors(csl.author)

\* authors[:50]
AuthorsCap == 50
FirstAuthors(names) ==
    SubSeq(names, 1, IF Len(names) <= AuthorsCap THEN Len(names) ELSE AuthorsCap)

\* (ROOT / "input" / "input_pdf.json").as_posix()
RegistryPath == "/repo/input/input_pdf.json"

\* the values build_yaml_from_record writes, by key (lines 82-92)
YamlValues(rec) ==
    [title |-> IF rec.title # "" THEN rec.title ELSE rec.csl.title,
     doi |-> IF rec.doi # "" THEN rec.doi ELSE rec.csl.DOI,
     citation_key |-> rec.citation_key,
     journal |-> rec.csl.container_title,
     volume |-> rec.csl.volume,
     issue |-> rec.csl.issue,
     pages |-> rec.csl.page,
     issued |-> _csl_iso_date(rec.csl),
     url |-> rec.csl.URL]

YamlAuthors(rec) == FirstAuthors(_format_authors_from_csl(rec.csl))

\* f"key: {_yaml_escape(v)}" when v is not empty
ScalarLine(key, v) ==
    IF v # "" THEN <<key \o ": " \o _yaml_escape(v)>> ELSE <<>>

AuthorLines(names) ==
    IF names = <<>> THEN <<>>
    ELSE <<"authors:">> \o [k \in 1..Len(names) |-> "  - " \o _yaml_escape(names[k])]

\* build_yaml_from_record (lines 94-120)
build_yaml_from_record(rec) ==
    LET v == YamlValues(rec)
        ls == <<"---">>
              \o ScalarLine("title", v.title)
              \o AuthorLines(YamlAuthors(rec))
              \o ScalarLine("doi", v.doi)
              \o ScalarLine("citation_key", v.citation_key)
              \o ScalarLine("journal", v.journal)
              \o ScalarLine("volume", v.volume)
              \o ScalarLine("issue", v.issue)
              \o ScalarLine("pages", v.pages)
              \o ScalarLine("issued", v.issued)
              \o ScalarLine("url", v.url)
              \o ScalarLine("source_registry", RegistryPath)
              \o <<"---">>
    IN  Join("\n", ls) \o "\n\n"

-----------------------------------------------------------------------------
(* Reading the header: src/src/14_index.py:44-95 *)

\* FM_BOUNDARY = ^---\s*$
FMBoundary(line) ==
    /\ Len(line) >= 3
    /\ SubSeq(line, 1, 3) = "---"
    /\ AllSpace(SubSeq(line, 4, Len(line)))

\* the character class [A-Za-z0-9_\-]
KeyChars ==
    {"a", "b", "c", "d", "e", "f", "g", "h", "i", "j", "k", "l", "m", "n", "o", "p",
     "q", "r", "s", "t", "u", "v", "w", "x", "y", "z",
     "A", "B", "C", "D", "E", "F", "G", "H", "I", "J", "K", "L", "M", "N", "O", "P",
     "Q", "R", "S", "T", "U", "V", "W", "X", "Y", "Z",
     "0", "1", "2", "3", "4", "5", "6", "7", "8", "9", "_", "-"}

RECURSIVE KeyRunFrom(_, _)
KeyRunFrom(line, p) ==
    IF p > Len(line) \/ Ch(line, p) \notin KeyChars THEN p - 1
    ELSE KeyRunFrom(line, p + 1)

\* KEY_VAL_RE = ^(?P<key>[A-Za-z0-9_\-]+):\s*(?P<val>.*)$
KeyValMatch(line) ==
    LET n == KeyRunFrom(line, 1)
    IN  n >= 1 /\ n < Len(line) /\ Ch(line, n + 1) = ":"
\* m.group("key").strip()
KeyOf(line) == SubSeq(line, 1, KeyRunFrom(line, 1))
\* m.group("val").strip()
ValOf(line) == Strip(SubSeq(line, KeyRunFrom(line, 1) + 2, Len(line)))

\* LIST_ITEM_RE = ^\s*\-\s*(.*)$
ListItemMatch(line) ==
    LET p == FirstNonSpace(line, 1)
    IN  p <= Len(line) /\ Ch(line, p) = "-"
\* m2.group(1).strip()
ItemOf(line) == Strip(SubSeq(line, FirstNonSpace(line, 1) + 1, Len(line)))

\* lines 80-81 and 89-90: one layer of matching quotes is cut off
Unquote(v) ==
    IF /\ Len(v) >= 1
       /\ \/ Ch(v, 1) = "\"" /\ Ch(v, Len(v)) = "\""
          \/ Ch(v, 1) = "'" /\ Ch(v, Len(v)) = "'"
    THEN SubSeq(v, 2, Len(v) - 1)
    ELSE v

\* the values of the mapping: a str or a list of str
MetaScalar(v) == [kind |-> "str", str |-> v, list |-> <<>>]
MetaList(l) == [kind |-> "list", str |-> "", list |-> l]

\* meta[key] = v
MetaSet(m, key, v) ==
    [k \in (DOMAIN m) \cup {key} |-> IF k = key THEN v ELSE m[k]]

\* lines 62-63 and 71-72: an open list is committed to the mapping
Commit(m, ckey, clist) ==
    IF ckey # "" /\ ~clist.isNone THEN MetaSet(m, ckey, MetaList(clist.items)) ELSE m

\* mutant of UnclosedResult: the keys parsed so far are returned
UnclosedResult_Partial(m, text) == [meta |-> m, body |-> text]

\* line 95: no closing boundary was found
UnclosedResult(m, text) == [meta |-> EmptyMeta, body |-> text]

\* lines 64-65: the closing boundary is fm_lines[at]
ClosedResult(m, ls, at) ==
    [meta |-> m, body |-> Join("\n", SubSeq(ls, at + 1, Len(ls)))]

-----------------------------------------------------------------------------
(* The inputs of parse_front_matter: documents made of a few lines, and the *)
(* headers build_yaml_from_record writes for registry records               *)

FMLineSet == {"---", "k: v", "k:", "- a", "", "b"}

RECURSIVE FMLineSeqs(_)
FMLineSeqs(n) ==
    IF n = 0 THEN {<<>>}
    ELSE LET P == FMLineSeqs(n - 1)
         IN  P \cup {Append(l, x) : l \in P, x \in FMLineSet}

\* the lines joined by one kind of terminator, with or without a final one
FMTexts ==
    {Join(nl, l) \o last : l \in FMLineSeqs(MaxFMLines), nl \in {"\n", "\r\n"},
                           last \in {"", "\n"}}

AuthorSet ==
    {[given |-> "A", family |-> "B", full |-> ""],
     [given |-> "", family |-> "", full |-> " "],
     [given |-> "", family |-> "O\"N", full |-> ""],
     [given |-> "X", family |-> "Y", full |-> "Z W"]}

RECURSIVE AuthorSeqs(_)
AuthorSeqs(n) ==
    IF n = 0 THEN {<<>>}
    ELSE LET P == AuthorSeqs(n - 1)
         IN  P \cup {Append(l, x) : l \in P, x \in AuthorSet}

FMRecords ==
    {[title |-> t, doi |-> d, citation_key |-> k,
      csl |-> [title |-> "CT", DOI |-> "", container_title |-> j, volume |-> "12",
               issue |-> "", page |-> "3-4", URL |-> u, issued |-> dp,
               author |-> au]] :
        t \in {"", "T", "a\"b\\c"}, d \in {"", "10.1/x"}, k \in {"", "k1"},
        j \in {"", "J"}, u \in {"http://u"},
        dp \in {<<>>, <<2020>>, <<2020, 2, 30>>, <<2021, 11, 5>>},
        au \in AuthorSeqs(MaxAuthors)}

FMInit ==
    /\ \/ /\ md_text \in FMTexts
          /\ fm_rec = NoRecord
          /\ fm_pc = "start"
       \/ /\ md_text = ""
          /\ fm_rec \in FMRecords
          /\ fm_pc = "build"
    /\ fm_lines = <<>>
    /\ fm_i = 0
    /\ meta = EmptyMeta
    /\ current_key = ""
    /\ current_list = NoneList
    /\ fm_result = [meta |-> EmptyMeta, body |-> ""]
    /\ CMIdle
    /\ EMIdle
    /\ INIdle
    /\ IXIdle
    /\ CLIdle
    /\ AMIdle
    /\ RCIdle

\* 13_add_metada.py:141: the header of the record becomes the head of the
\* document the indexer reads
YamlBuild ==
    /\ fm_pc = "build"
    /\ md_text' = build_yaml_from_record(fm_rec)
    /\ fm_pc' = "start"
    /\ UNCHANGED <<fm_rec, fm_lines, fm_i, meta, current_key, current_list, fm_result>>
    /\ UNCHANGED <<cmVars, emVars, inVars, ixVars, clVars, amVars, rcVars>>

\* lines 52-54: the text does not begin with a boundary line
FMNoHeader ==
    /\ fm_pc = "start"
    /\ LET ls == splitlines(md_text)
       IN  /\ IF ls = <<>> THEN TRUE ELSE ~FMBoundary(ls[1])
           /\ fm_lines' = ls
    /\ fm_result' = [meta |-> EmptyMeta, body |-> md_text]
    /\ fm_pc' = "done"
    /\ UNCHANGED <<fm_rec, md_text, fm_i, meta, current_key, current_list>>
    /\ UNCHANGED <<cmVars, emVars, inVars, ixVars, clVars, amVars, rcVars>>

\* lines 52-58: the text begins with a boundary line
FMOpen ==
    /\ fm_pc = "start"
    /\ LET ls == splitlines(md_text)
       IN  /\ ls # <<>>
           /\ FMBoundary(ls[1])
           /\ fm_lines' = ls
    /\ fm_i' = 1
    /\ meta' = EmptyMeta
    /\ current_key' = ""
    /\ current_list' = NoneList
    /\ fm_pc' = "loop"
    /\ UNCHANGED <<fm_rec, md_text, fm_result>>
    /\ UNCHANGED <<cmVars, emVars, inVars, ixVars, clVars, amVars, rcVars>>

\* lines 61-65: the closing boundary
FMClose ==
    /\ fm_pc = "loop"
    /\ fm_i < Len(fm_lines)
    /\ FMBoundary(fm_lines[fm_i + 1])
    /\ meta' = Commit(meta, current_key, current_list)
    /\ fm_result' = ClosedResult(meta', fm_lines, fm_i + 1)
    /\ fm_pc' = "done"
    /\ UNCHANGED <<fm_rec, md_text, fm_lines, fm_i, current_key, current_list>>
    /\ UNCHANGED <<cmVars, emVars, inVars, ixVars, clVars, amVars, rcVars>>

\* lines 66-68: a blank line
FMBlank ==
    /\ fm_pc = "loop"
    /\ fm_i < Len(fm_lines)
    /\ ~FMBoundary(fm_lines[fm_i + 1])
    /\ Strip(fm_lines[fm_i + 1]) = ""
    /\ fm_i' = fm_i + 1
    /\ UNCHANGED <<fm_rec, md_text, fm_lines, meta, current_key, current_list,
                   fm_result, fm_pc>>
    /\ UNCHANGED <<cmVars, emVars, inVars, ixVars, clVars, amVars, rcVars>>

\* lines 69-84: a key line, opening a list or setting a scalar
FMKeyVal ==
    /\ fm_pc = "loop"
    /\ fm_i < Len(fm_lines)
    /\ LET line == fm_lines[fm_i + 1]
           key == KeyOf(line)
           val == ValOf(line)
           m1 == Commit(meta, current_key, current_list)
       IN  /\ ~FMBoundary(line)
           /\ Strip(line) # ""
           /\ KeyValMatch(line)
           /\ IF val = "" \/ val \in {"|", ">"}
              THEN /\ meta' = m1
                   /\ current_key' = key
                   /\ current_list' = [isNone |-> FALSE, items |-> <<>>]
              ELSE /\ meta' = MetaSet(m1, key, MetaScalar(Unquote(val)))
                   /\ current_key' = ""
                   /\ current_list' = NoneList
    /\ fm_i' = fm_i + 1
    /\ UNCHANGED <<fm_rec, md_text, fm_lines, fm_result, fm_pc>>
    /\ UNCHANGED <<cmVars, emVars, inVars, ixVars, clVars, amVars, rcVars>>

\* lines 85-94: any other line; a list item is appended to the open list
FMOther ==
    /\ fm_pc = "loop"
    /\ fm_i < Len(fm_lines)
    /\ LET line == fm_lines[fm_i + 1]
       IN  /\ ~FMBoundary(line)
           /\ Strip(line) # ""
           /\ ~KeyValMatch(line)
           /\ IF ListItemMatch(line) /\ current_key # ""
              THEN current_list' =
                     [isNone |-> FALSE,
                      items |-> Append(current_list.items, Unquote(ItemOf(line)))]
              ELSE UNCHANGED current_list
    /\ fm_i' = fm_i + 1
    /\ UNCHANGED <<fm_rec, md_text, fm_lines, meta, current_key, fm_result, fm_pc>>
    /\ UNCHANGED <<cmVars, emVars, inVars, ixVars, clVars, amVars, rcVars>>

\* line 95: the lines ran out before a closing boundary
FMUnclosed ==
    /\ fm_pc = "loop"
    /\ fm_i >= Len(fm_lines)
    /\ fm_result' = UnclosedResult(meta, md_text)
    /\ fm_pc' = "done"
    /\ UNCHANGED <<fm_rec, md_text, fm_lines, fm_i, meta, current_key, current_list>>
    /\ UNCHANGED <<cmVars, emVars, inVars, ixVars, clVars, amVars, rcVars>>

FMNext ==
    \/ YamlBuild
    \/ FMNoHeader
    \/ FMOpen
    \/ FMClose
    \/ FMBlank
    \/ FMKeyVal
    \/ FMOther
    \/ FMUnclosed

SpecFM == FMInit /\ [][FMNext]_vars

-----------------------------------------------------------------------------
(* Properties of parse_front_matter and of the header round trip *)

\* the text does not begin with a boundary line
NoOpeningBoundary(text) ==
    LET ls == splitlines(text)
    IN  IF ls = <<>> THEN TRUE ELSE ~FMBoundary(ls[1])

\* the lines after the first that are boundary lines
ClosingBoundaries(text) ==
    LET ls == splitlines(text)
    IN  {k \in 2..Len(ls) : FMBoundary(ls[k])}

\* position in s of the first character after n lines from position p, their
\* terminators included
RECURSIVE LineStart(_, _, _)
LineStart(s, p, n) ==
    IF n = 0 THEN p
    ELSE LET B == {k \in p..Len(s) : Ch(s, k) \in LineBreaks}
         IN  IF B = {} THEN Len(s) + 1
             ELSE LET j == Min(B)
                  IN  LineStart(s, IF Ch(s, j) = "\r" /\ j < Len(s) /\ Ch(s, j + 1) = "\n"
                                   THEN j + 2 ELSE j + 1, n - 1)

\* the input text that follows its n-th line
TextAfterLine(s, n) == SubSeq(s, LineStart(s, 1, n), Len(s))

\* C7: when the text does not begin with a boundary line, or no closing
\* boundary line is found, parse_front_matter returns the empty mapping and
\* the original text, with no partially parsed key.
C7_FailsSoft ==
    (fm_pc = "done" /\ (NoOpeningBoundary(md_text) \/ ClosingBoundaries(md_text) = {}))
        => fm_result = [meta |-> EmptyMeta, body |-> md_text]

\* C7 witness: a header with a scalar key and an open list was parsed up to
\* the end of the text without closing boundary.
C7_Witness ==
    /\ fm_pc = "done"
    /\ md_text = "---\nk: v\nk:\n- a"
    /\ meta # EmptyMeta
    /\ current_list.items = <<"a">>
    /\ fm_result.meta = EmptyMeta

\* C8: when the closing boundary is found, the returned body is exactly the
\* input text that follows the closing boundary line (every line, line
\* terminator and trailing newline as it was).
C8_BodyIsRemainder ==
    (fm_pc = "done" /\ ~NoOpeningBoundary(md_text) /\ ClosingBoundaries(md_text) # {})
        => fm_result.body = TextAfterLine(md_text, Min(ClosingBoundaries(md_text)))

\* C9: parsing the header build_yaml_from_record wrote for a record returns
\* the scalar values title, doi, citation_key, journal, issued, url as they
\* were written (double quotes and backslashes included) and the authors in
\* the same order.
C9_HeaderRoundTrip ==
    (fm_pc = "done" /\ fm_rec # NoRecord) =>
        LET w == YamlValues(fm_rec)
            m == fm_result.meta
        IN  /\ \A f \in {"title", "doi", "citation_key", "journal", "issued", "url"} :
                w[f] # "" => (f \in DOMAIN m /\ m[f] = MetaScalar(w[f]))
            /\ YamlAuthors(fm_rec) # <<>>
                => ("authors" \in DOMAIN m /\ m["authors"] = MetaList(YamlAuthors(fm_rec)))

-----------------------------------------------------------------------------
(* Python str primitives of the ingest code *)

Uppers == "ABCDEFGHIJKLMNOPQRSTUVWXYZ"
Lowers == "abcdefghijklmnopqrstuvwxyz"
Digits == "0123456789"
Chars(s) == {Ch(s, k) : k \in 1..Len(s)}

\* str.lower() / str.casefold() of one character
UpperChars == Chars(Uppers)
LowerCh(c) ==
    IF c \in UpperChars
    THEN Ch(Lowers, CHOOSE k \in 1..Len(Uppers) : Ch(Uppers, k) = c)
    ELSE c
\* str.lower(), str.casefold()
RECURSIVE LowerFrom(_, _)
LowerFrom(s, p) ==
    IF p > Len(s) THEN "" ELSE LowerCh(Ch(s, p)) \o LowerFrom(s, p + 1)
Lower(str) == CHOOSE r \in {LowerFrom(s, 1) : s \in {str}} : TRUE

\* the characters of s that are in C, in order
RECURSIVE KeepFrom(_, _, _)
KeepFrom(s, p, C) ==
    IF p > Len(s) THEN ""
    ELSE (IF Ch(s, p) \in C THEN Ch(s, p) ELSE "") \o KeepFrom(s, p + 1, C)
Keep(str, C) == CHOOSE r \in {KeepFrom(s, 1, C) : s \in {str}} : TRUE

\* str.isalnum(), [A-Za-z0-9]
AlnumChars == Chars(Uppers) \cup Chars(Lowers) \cup Chars(Digits)
\* [a-z0-9]
LowerAlnumChars == Chars(Lowers) \cup Chars(Digits)

\* str.startswith(prefix)
StartsWith(str, prefix) ==
    \E s \in {str} : Len(s) >= Len(prefix) /\ SubSeq(s, 1, Len(prefix)) = prefix

\* str.strip(chars)
RECURSIVE FirstNotIn(_, _, _)
FirstNotIn(s, p, C) ==
    IF p > Len(s) \/ Ch(s, p) \notin C THEN p ELSE FirstNotIn(s, p + 1, C)
RECURSIVE LastNotIn(_, _, _)
LastNotIn(s, q, C) ==
    IF q < 1 \/ Ch(s, q) \notin C THEN q ELSE LastNotIn(s, q - 1, C)
StripChars(str, C) ==
    CHOOSE r \in {SubSeq(s, FirstNotIn(s, 1, C), LastNotIn(s, Len(s), C)) : s \in {str}} :
        TRUE

\* the maximal runs of characters of C in s, in order: str.split() for the
\* complement of whitespace, re.findall("[A-Za-z0-9]+") for the alphanumerics
RECURSIVE RunsFrom(_, _, _)
RunsFrom(s, p, C) ==
    IF p > Len(s) THEN <<>>
    ELSE IF Ch(s, p) \notin C THEN RunsFrom(s, p + 1, C)
    ELSE CHOOSE r \in {<<SubSeq(s, p, e - 1)>> \o RunsFrom(s, e, C) :
                        e \in {FirstNotIn(s, p, C)}} : TRUE
Runs(str, C) == CHOOSE r \in {RunsFrom(s, 1, C) : s \in {str}} : TRUE
\* str.split()
Words(str) == CHOOSE r \in {RunsFrom(s, 1, Chars(s) \ Whitespace) : s \in {str}} : TRUE

\* str(n) of a natural number
RECURSIVE IntToStr(_)
IntToStr(n) == IF n < 10 THEN Digit(n) ELSE IntToStr(n \div 10) \o Digit(n % 10)

\* s[:n]
Truncate(str, n) ==
    CHOOSE r \in {IF Len(s) > n THEN SubSeq(s, 1, n) ELSE s : s \in {str}} : TRUE

\* the characters of file names, in code point order
CharOrder == " ()-.0123456789ABCDEFGHIJKLMNOPQRSTUVWXYZ_abcdefghijklmnopqrstuvwxyz"
Ord(c) == CHOOSE k \in 1..Len(CharOrder) : Ch(CharOrder, k) = c
\* a < b for str
RECURSIVE StrLess(_, _)
StrLess(a, b) ==
    IF b = "" THEN FALSE
    ELSE IF a = "" THEN TRUE
    ELSE IF Ch(a, 1) # Ch(b, 1) THEN Ord(Ch(a, 1)) < Ord(Ch(b, 1))
    ELSE StrLess(SubSeq(a, 2, Len(a)), SubSeq(b, 2, Len(b)))

-----------------------------------------------------------------------------
(* Identity extraction: src/input/check_pdf.py *)

\* normalize_doi (check_pdf.py:41-48)
DoiUrlPrefixes ==
    {"https://dx.doi.org/", "http://dx.doi.org/", "https://doi.org/", "http://doi.org/"}
DoiPunctuation == {" ", "\t", "\r", "\n", ".", ",", ";", ")", ">"}
StripDoiPrefix(str) ==
    CHOOSE r \in {IF \E pre \in DoiUrlPrefixes : StartsWith(l, pre)
                  THEN SubSeq(s, Len(CHOOSE pre \in DoiUrlPrefixes : StartsWith(l, pre)) + 1,
                              Len(s))
                  ELSE s : <<s, l>> \in {<<str, Lower(str)>>}} : TRUE
normalize_doi(raw) == StripChars(StripDoiPrefix(Strip(raw)), DoiPunctuation)

\* STOPWORDS (check_pdf.py:218)
STOPWORDS == {"the", "a", "an", "of", "and", "in", "on", "for", "to", "with"}

\* _slug (check_pdf.py:221-227)
SlugMax == 30
OrDefault(str, default) == CHOOSE r \in {IF s = "" THEN default ELSE s : s \in {str}} : TRUE
_slug(s) == OrDefault(Truncate(Keep(Lower(s), LowerAlnumChars), SlugMax), "key")

\* _year_from_csl (check_pdf.py:230-244)
_year_from_csl(csl) ==
    IF csl = NoCsl \/ csl.issued = <<>> THEN "0000" ELSE IntToStr(csl.issued[1])

\* _first_author_family (check_pdf.py:247-266)
_first_author_family(csl) ==
    IF csl = NoCsl THEN "anon"
    ELSE IF csl.author # <<>> /\ Strip(csl.author[1].family) # ""
         THEN OrDefault(Keep(Lower(Strip(csl.author[1].family)), AlnumChars), "anon")
    ELSE IF Strip(csl.container_title) # ""
         THEN OrDefault(Keep(Lower(Words(Strip(csl.container_title))[1]), AlnumChars), "anon")
    ELSE "anon"

\* _short_title_component (check_pdf.py:269-275)
NotStopword(w) == w \notin STOPWORDS
_short_title_component(title, max_len) ==
    CHOOSE r \in {IF words = <<>> THEN "art" ELSE Truncate(Join("", words), max_len) :
                    words \in {SelectSeq(Runs(Lower(title), AlnumChars), NotStopword)}} : TRUE

\* _build_citation_key (check_pdf.py:278-293)
ShortTitleMax == 24
KeyTitle(csl, fallback_title) ==
    IF csl # NoCsl /\ csl.title # "" THEN csl.title
    ELSE IF fallback_title # "" THEN fallback_title ELSE "Untitled"
_build_citation_key(csl, fallback_title) ==
    CHOOSE r \in {OrDefault(Keep(Lower(_first_author_family(c) \o _year_from_csl(c)
                                        \o _short_title_component(t, ShortTitleMax)),
                                  LowerAlnumChars),
                             _slug(t)) :
                    <<c, t>> \in {<<csl, KeyTitle(csl, fallback_title)>>}} : TRUE

\* what the PDF library and Crossref give for a PDF, by content: the DOI
\* matched on the first pages ("" when none), the CSL-JSON fetched for it
\* (NoCsl when the fetch fails), the Crossref title, the title of the PDF
\* metadata and the largest-font title ("" when none)
Csl1 ==
    [NoCsl EXCEPT !.title = "X ray", !.DOI = "10.1000/ab", !.issued = <<2020>>,
                  !.author = <<[given |-> "Al", family |-> "Smith", full |-> ""]>>]
Contents == {"c1", "c2", "c3", "c4", "c5"}
PdfFacts(content) ==
    CASE content = "c1" ->
            [doi_text |-> "10.1000/ab", csl |-> Csl1, cr_title |-> "X ray",
             meta_title |-> "", heuristic |-> "1 Introduction"]
      [] content = "c2" ->
            [doi_text |-> "10.1000/AB", csl |-> NoCsl, cr_title |-> "",
             meta_title |-> "", heuristic |-> ""]
      [] content = "c3" ->
            [doi_text |-> "", csl |-> NoCsl, cr_title |-> "",
             meta_title |-> "x_ray", heuristic |-> "X"]
      [] content = "c4" ->
            [doi_text |-> "", csl |-> NoCsl, cr_title |-> "",
             meta_title |-> "", heuristic |-> ""]
      [] content = "c5" ->
            [doi_text |-> "", csl |-> NoCsl, cr_title |-> "",
             meta_title |-> "X ray. Part 1", heuristic |-> ""]

\* check_pdf (check_pdf.py:152-214)
\* lines 166-167: the DOI found on the first pages, "" for None
FoundDoi(f) == IF f.doi_text = "" THEN "" ELSE normalize_doi(f.doi_text)
\* lines 174-187: the CSL-JSON, fetched when a DOI was found
FetchedCsl(f, doi) == IF doi # "" THEN f.csl ELSE NoCsl
\* lines 171-200: the title from the CSL-JSON, else Crossref, else the PDF
\* metadata, else the largest font, else "Unknown"
ResolvedTitle(f, doi, csl) ==
    IF doi # "" /\ csl.title # "" THEN csl.title
    ELSE IF doi # "" /\ f.cr_title # "" THEN f.cr_title
    ELSE IF f.meta_title # "" THEN f.meta_title
    ELSE IF f.heuristic # "" THEN f.heuristic
    ELSE "Unknown"
check_pdf(content) ==
    CHOOSE r \in {[title |-> title,
                   doi |-> IF doi # "" THEN doi ELSE "N/A",
                   csl |-> FetchedCsl(f, doi),
                   citation_key |-> _build_citation_key(FetchedCsl(f, doi), title)] :
                    <<f, doi, title>> \in
                        {<<PdfFacts(content), d, ResolvedTitle(PdfFacts(content), d,
                                                               FetchedCsl(PdfFacts(content), d))>> :
                            d \in {FoundDoi(PdfFacts(content))}}} : TRUE

-----------------------------------------------------------------------------
(* Registry helpers: src/input/utils.py *)

\* safe_filename_from_key (utils.py:19-29)
SafeNameMax == 80
safe_filename_from_key(key) ==
    Truncate(OrDefault(Keep(Lower(key), AlnumChars), "key"), SafeNameMax)

\* unique_path (utils.py:32-42): the first free name among stem, "stem (1)",
\* "stem (2)", ... in the directory of the topic
Exists(files, topic, name) == \E f \in files : f.topic = topic /\ f.name = name
RECURSIVE UniqueFrom(_, _, _, _)
UniqueFrom(files, topic, stem, n) ==
    IF ~Exists(files, topic, stem \o " (" \o IntToStr(n) \o ")")
    THEN stem \o " (" \o IntToStr(n) \o ")"
    ELSE UniqueFrom(files, topic, stem, n + 1)
unique_path(files, topic, str) ==
    CHOOSE r \in {IF ~Exists(files, topic, stem) THEN stem
                  ELSE UniqueFrom(files, topic, stem, 1) : stem \in {str}} : TRUE

\* normalize_title (utils.py:45-52)
RECURSIVE LastDot(_, _)
LastDot(s, q) == IF q < 1 \/ Ch(s, q) = "." THEN q ELSE LastDot(s, q - 1)
\* name.rsplit(".", 1)[0] when "." is in name
BeforeLastDot(str) ==
    CHOOSE r \in {IF d >= 1 THEN SubSeq(s, 1, d - 1) ELSE s :
                    <<s, d>> \in {<<str, LastDot(str, Len(str))>>}} : TRUE
normalize_title(s) ==
    Lower(Strip(Join(" ", Words(ReplaceChar(ReplaceChar(BeforeLastDot(s), "_", " "),
                                            "-", " ")))))

\* load_db / save_db (utils.py:57-72): the list of records of the file;
\* load_db_Empty is load_db answering as for a missing file
load_db_Empty(file) == <<>>
load_db(file) == file
save_db(list) == list

\* the first of the indices M of matching records, 0 for None
FirstOf(M) == CHOOSE r \in {IF S = {} THEN 0 ELSE Min(S) : S \in {M}} : TRUE

\* find_by_key with case-sensitive comparison
find_by_key_CaseSensitive(list, key) ==
    IF key = "" THEN 0
    ELSE CHOOSE r \in {FirstOf({n \in 1..Len(list) :
                                    \E v \in {Strip(list[n].citation_key)} :
                                        v # "" /\ v = k}) : k \in {Strip(key)}} : TRUE
\* find_by_key (utils.py:77-85)
find_by_key(list, key) ==
    IF key = "" THEN 0
    ELSE CHOOSE r \in {FirstOf({n \in 1..Len(list) :
                                    \E v \in {Lower(Strip(list[n].citation_key))} :
                                        v # "" /\ v = k}) : k \in {Lower(Strip(key))}} : TRUE

\* find_by_title (utils.py:88-94)
find_by_title(list, title) ==
    CHOOSE r \in {FirstOf({n \in 1..Len(list) : normalize_title(list[n].title) = key}) :
                    key \in {normalize_title(title)}} : TRUE

\* find_by_doi comparing the DOIs as they are written
find_by_doi_AsWritten(list, doi) ==
    IF doi = "" THEN 0
    ELSE FirstOf({n \in 1..Len(list) : list[n].doi # "" /\ list[n].doi = doi})
\* find_by_doi with normalizer = normalize_doi (utils.py:97-114)
find_by_doi(list, doi) ==
    IF doi = "" THEN 0
    ELSE CHOOSE r \in {FirstOf({n \in 1..Len(list) :
                                    /\ list[n].doi # ""
                                    /\ Lower(normalize_doi(list[n].doi)) = key}) :
                        key \in {Lower(normalize_doi(doi))}} : TRUE

-----------------------------------------------------------------------------
(* The ingest run: src/input/input.py:65-218 *)

\* a registry record (input.py:127-133)
Record(key, title, doi, csl, topic) ==
    [citation_key |-> key, title |-> title, doi |-> doi, csl |-> csl, topic |-> topic]

\* the PDF files that may be on disk: name is the stem of "<name>.pdf",
\* topic is "" under input/pdf and the folder name under input/topics
File(name, topic, content) == [name |-> name, topic |-> topic, content |-> content]
FileSet ==
    {File("paper", "", "c1"), File("smith2020xray", "", "c1"), File("b", "", "c2"),
     File("c", "t1", "c3"), File("x ray", "", "c4"), File("paper", "t1", "c1"),
     File("d", "", "c5")}
DirInits == {d \in SUBSET FileSet : Cardinality(d) <= MaxPdfs}

\* the registries input_pdf.json may hold when a run starts
RegistryInits ==
    {<<>>,
     <<Record("", "X-Ray", "", NoCsl, "")>>,
     <<Record("Smith2020XRay", "", "", NoCsl, "")>>,
     <<Record("smith2020xray", "X ray", "", NoCsl, "")>>,
     <<Record("", "", "https://doi.org/10.1000/AB.", NoCsl, "")>>,
     <<Record("jones2019xray", "X ray. Part 2", "10.1000/ef", NoCsl, "")>>,
     <<Record("k9", "Old", "10.1000/ab", NoCsl, "t0"), Record("", "x ray", "", NoCsl, "")>>,
     <<Record("", "x ray", "doc:1", NoCsl, ""), Record("anon0000unknown", "U", "", NoCsl, "")>>}

\* sorted(INPUT_DIR.glob("*.pdf")) followed by the sorted PDFs of every topic
\* folder in sorted order (input.py:82-87)
PathLess(a, b) ==
    IF a.topic # b.topic
    THEN a.topic = "" \/ (b.topic # "" /\ StrLess(a.topic, b.topic))
    ELSE StrLess(a.name \o ".pdf", b.name \o ".pdf")
RECURSIVE SetToSeq(_)
SetToSeq(S) ==
    IF S = {} THEN <<>>
    ELSE LET x == CHOOSE x \in S : TRUE IN <<x>> \o SetToSeq(S \ {x})
ListPdfs(files) == SortSeq(SetToSeq(files), PathLess)

\* hashlib.sha256(pdf.read_bytes()).hexdigest()[:16], one digest per content
Sha256Hex16(content) == "00000000000000" \o content

\* _is_real_doi (input.py:112-113)
_is_real_doi(d) == d # "" /\ StartsWith(d, "10.")

\* res after lines 109-124: check_pdf, then the synthetic DOI and the file
\* stem as title when no real DOI was found
Extract(pdf) ==
    CHOOSE res \in
        {IF _is_real_doi(r.doi) THEN r
         ELSE [r EXCEPT !.doi = "doc:" \o Sha256Hex16(pdf.content),
                        !.title = IF Lower(r.title) = "unknown" THEN pdf.name ELSE r.title] :
            r \in {check_pdf(pdf.content)}} : TRUE

\* lines 136-144: the PDF renamed to the first free name made of the key
Rename(files, pdf, res) ==
    CHOOSE d \in
        {IF target # pdf.name
         THEN (files \ {pdf}) \cup {[pdf EXCEPT !.name = target]}
         ELSE files :
            target \in {unique_path(files, pdf.topic,
                            safe_filename_from_key(IF res.citation_key # ""
                                                   THEN res.citation_key
                                                   ELSE Strip(pdf.name)))}} : TRUE

\* lines 149-165: the fields filled on a key match, and the merged flag
MergeByKey(e, res, topic) ==
    LET f1 == e.doi = "" /\ res.doi # "" /\ res.doi # "N/A"
        f2 == e.title = "" /\ res.title # "" /\ Lower(res.title) # "unknown"
        f3 == res.csl # NoCsl /\ e.csl = NoCsl
        f4 == topic # "" /\ e.topic = ""
    IN  [rec |-> [e EXCEPT !.doi = IF f1 THEN res.doi ELSE @,
                           !.title = IF f2 THEN res.title ELSE @,
                           !.csl = IF f3 THEN res.csl ELSE @,
                           !.topic = IF f4 THEN topic ELSE @],
         merged |-> f1 \/ f2 \/ f3 \/ f4]

\* MergeByDoi with the title taken from the candidate whenever it has one
MergeByDoi_TitleReplaced(e, res, topic) ==
    LET f1 == e.citation_key = ""
        f2 == res.csl # NoCsl /\ e.csl = NoCsl
        f3 == res.title # "" /\ Lower(res.title) # "unknown"
        f4 == topic # "" /\ e.topic = ""
    IN  [rec |-> [e EXCEPT !.citation_key = IF f1 THEN res.citation_key ELSE @,
                           !.csl = IF f2 THEN res.csl ELSE @,
                           !.title = IF f3 THEN res.title ELSE @,
                           !.topic = IF f4 THEN topic ELSE @],
         merged |-> f1 \/ f2 \/ f3 \/ f4]
\* lines 174-187: the fields filled on a DOI match
MergeByDoi(e, res, topic) ==
    LET f1 == e.citation_key = ""
        f2 == res.csl # NoCsl /\ e.csl = NoCsl
        f3 == res.title # "" /\ Lower(res.title) # "unknown" /\ e.title = ""
        f4 == topic # "" /\ e.topic = ""
    IN  [rec |-> [e EXCEPT !.citation_key = IF f1 THEN res.citation_key ELSE @,
                           !.csl = IF f2 THEN res.csl ELSE @,
                           !.title = IF f3 THEN res.title ELSE @,
                           !.topic = IF f4 THEN topic ELSE @],
         merged |-> f1 \/ f2 \/ f3 \/ f4]

\* lines 194-205: the fields filled on a title match
MergeByTitle(e, res, topic) ==
    LET f1 == e.citation_key = ""
        f2 == res.csl # NoCsl /\ e.csl = NoCsl
        f3 == res.doi # "" /\ res.doi # "N/A" /\ e.doi = ""
        f4 == topic # "" /\ e.topic = ""
    IN  [rec |-> [e EXCEPT !.citation_key = IF f1 THEN res.citation_key ELSE @,
                           !.csl = IF f2 THEN res.csl ELSE @,
                           !.doi = IF f3 THEN res.doi ELSE @,
                           !.topic = IF f4 THEN topic ELSE @],
         merged |-> f1 \/ f2 \/ f3 \/ f4]

INInit ==
    /\ db \in RegistryInits
    /\ dir \in DirInits
    /\ items = <<>>
    /\ changed = FALSE
    /\ all_pdfs = <<>>
    /\ in_i = 0
    /\ runs = 0
    /\ step = NoStep
    /\ in_pc = "start"
    /\ CMIdle
    /\ EMIdle
    /\ FMIdle
    /\ IXIdle
    /\ CLIdle
    /\ AMIdle
    /\ RCIdle

\* lines 65-90: a run starts, loads the registry and lists the PDFs; with no
\* PDF it returns at once
IngestStart ==
    /\ in_pc \in {"start", "done"}
    /\ runs < MaxRuns
    /\ runs' = runs + 1
    /\ items' = load_db(db)
    /\ changed' = FALSE
    /\ all_pdfs' = ListPdfs(dir)
    /\ in_i' = 1
    /\ step' = NoStep
    /\ in_pc' = IF dir = {} THEN "done" ELSE "loop"
    /\ UNCHANGED <<db, dir>>
    /\ UNCHANGED <<cmVars, emVars, fmVars, ixVars, clVars, amVars, rcVars>>

\* the PDF of the current iteration
InLoop == in_pc = "loop" /\ in_i <= Len(all_pdfs)
Pdf == all_pdfs[in_i]

\* lines 100-106: the stem is the key of a record, the PDF is not extracted
IngestExistingByStem ==
    /\ InLoop
    /\ \E k \in {find_by_key(items, Strip(Pdf.name))} :
           /\ k # 0
           /\ step' = [NoStep EXCEPT !.action = "existing-by-stem", !.target = k,
                                     !.before = items]
    /\ in_i' = in_i + 1
    /\ UNCHANGED <<db, dir, items, changed, all_pdfs, runs, in_pc>>
    /\ UNCHANGED <<cmVars, emVars, fmVars, ixVars, clVars, amVars, rcVars>>

\* lines 108-169: extraction, rename, and a record found by citation key
IngestMergeByKey ==
    /\ InLoop
    /\ find_by_key(items, Strip(Pdf.name)) = 0
    /\ \E res \in {Extract(Pdf)} : \E k \in {find_by_key(items, res.citation_key)} :
           /\ k # 0
           /\ \E m \in {MergeByKey(items[k], res, Pdf.topic)} :
                  /\ items' = [items EXCEPT ![k] = m.rec]
                  /\ changed' = (changed \/ m.merged)
           /\ dir' = Rename(dir, Pdf, res)
           /\ step' = [action |-> "merge-by-key", res |-> res, target |-> k,
                       before |-> items]
    /\ in_i' = in_i + 1
    /\ UNCHANGED <<db, all_pdfs, runs, in_pc>>
    /\ UNCHANGED <<cmVars, emVars, fmVars, ixVars, clVars, amVars, rcVars>>

\* lines 108-144, 171-189: no record by key, a record found by DOI
IngestMergeByDoi ==
    /\ InLoop
    /\ find_by_key(items, Strip(Pdf.name)) = 0
    /\ \E res \in {Extract(Pdf)} : \E d \in {find_by_doi(items, res.doi)} :
           /\ find_by_key(items, res.citation_key) = 0
           /\ d # 0
           /\ \E m \in {MergeByDoi(items[d], res, Pdf.topic)} :
                  /\ items' = [items EXCEPT ![d] = m.rec]
                  /\ changed' = (changed \/ m.merged)
           /\ dir' = Rename(dir, Pdf, res)
           /\ step' = [action |-> "merge-by-doi", res |-> res, target |-> d,
                       before |-> items]
    /\ in_i' = in_i + 1
    /\ UNCHANGED <<db, all_pdfs, runs, in_pc>>
    /\ UNCHANGED <<cmVars, emVars, fmVars, ixVars, clVars, amVars, rcVars>>

\* lines 108-144, 191-207: no record by key or DOI, a record found by title
IngestMergeByTitle ==
    /\ InLoop
    /\ find_by_key(items, Strip(Pdf.name)) = 0
    /\ \E res \in {Extract(Pdf)} : \E t \in {find_by_title(items, res.title)} :
           /\ find_by_key(items, res.citation_key) = 0
           /\ find_by_doi(items, res.doi) = 0
           /\ t # 0
           /\ \E m \in {MergeByTitle(items[t], res, Pdf.topic)} :
                  /\ items' = [items EXCEPT ![t] = m.rec]
                  /\ changed' = (changed \/ m.merged)
           /\ dir' = Rename(dir, Pdf, res)
           /\ step' = [action |-> "merge-by-title", res |-> res, target |-> t,
                       before |-> items]
    /\ in_i' = in_i + 1
    /\ UNCHANGED <<db, all_pdfs, runs, in_pc>>
    /\ UNCHANGED <<cmVars, emVars, fmVars, ixVars, clVars, amVars, rcVars>>

\* lines 108-144, 209-212: no record found, the new record is appended
IngestNew ==
    /\ InLoop
    /\ find_by_key(items, Strip(Pdf.name)) = 0
    /\ \E res \in {Extract(Pdf)} :
           /\ find_by_key(items, res.citation_key) = 0
           /\ find_by_doi(items, res.doi) = 0
           /\ find_by_title(items, res.title) = 0
           /\ items' = Append(items, Record(res.citation_key, res.title, res.doi,
                                            res.csl, Pdf.topic))
           /\ changed' = TRUE
           /\ dir' = Rename(dir, Pdf, res)
           /\ step' = [action |-> "new", res |-> res, target |-> Len(items) + 1,
                       before |-> items]
    /\ in_i' = in_i + 1
    /\ UNCHANGED <<db, all_pdfs, runs, in_pc>>
    /\ UNCHANGED <<cmVars, emVars, fmVars, ixVars, clVars, amVars, rcVars>>

\* lines 214-218: the registry is saved when something changed
IngestFinish ==
    /\ in_pc = "loop"
    /\ in_i > Len(all_pdfs)
    /\ db' = IF changed THEN save_db(items) ELSE db
    /\ in_pc' = "done"
    /\ UNCHANGED <<dir, items, changed, all_pdfs, in_i, runs, step>>
    /\ UNCHANGED <<cmVars, emVars, fmVars, ixVars, clVars, amVars, rcVars>>

INNext ==
    \/ IngestStart
    \/ IngestExistingByStem
    \/ IngestMergeByKey
    \/ IngestMergeByDoi
    \/ IngestMergeByTitle
    \/ IngestNew
    \/ IngestFinish

SpecIngest == INInit /\ [][INNext]_vars

-----------------------------------------------------------------------------
(* Properties of the ingest reconciliation *)

\* the records of a registry that match a candidate by citation key
\* (case-insensitively), by normalized DOI, by normalized title
KeyMatches(reg, key) ==
    {k \in 1..Len(reg) :
        /\ Strip(reg[k].citation_key) # ""
        /\ Lower(Strip(reg[k].citation_key)) = Lower(Strip(key))}
DoiMatches(reg, doi) ==
    {k \in 1..Len(reg) :
        /\ reg[k].doi # "" /\ doi # ""
        /\ Lower(normalize_doi(reg[k].doi)) = Lower(normalize_doi(doi))}
TitleMatches(reg, title) ==
    {k \in 1..Len(reg) : normalize_title(reg[k].title) = normalize_title(title)}

\* the iterations that extracted the identity of the PDF
Reconciliations == {"merge-by-key", "merge-by-doi", "merge-by-title", "new"}

\* the only record of the registry that differs from before is the target
OnlyTargetTouched ==
    /\ Len(items) = Len(step.before)
    /\ \A k \in 1..Len(items) : k # step.target => items[k] = step.before[k]

\* C10: for each PDF whose identity was extracted, exactly one action was
\* taken, the first that applies of: merge into the record matching the
\* citation key, else the one matching the normalized DOI, else the one
\* matching the normalized title, else append; a record is appended only when
\* no record matches by key, DOI or title.
C10_ReconciliationPrecedence ==
    step.action \in Reconciliations =>
        \E K \in {KeyMatches(step.before, step.res.citation_key)} :
        \E D \in {DoiMatches(step.before, step.res.doi)} :
        \E T \in {TitleMatches(step.before, step.res.title)} :
            /\ step.action = (IF K # {} THEN "merge-by-key"
                              ELSE IF D # {} THEN "merge-by-doi"
                              ELSE IF T # {} THEN "merge-by-title"
                              ELSE "new")
            /\ step.action = "merge-by-key" => (step.target \in K /\ OnlyTargetTouched)
            /\ step.action = "merge-by-doi" => (step.target \in D /\ OnlyTargetTouched)
            /\ step.action = "merge-by-title" => (step.target \in T /\ OnlyTargetTouched)
            /\ step.action = "new" =>
                    /\ K \cup D \cup T = {}
                    /\ Len(items) = Len(step.before) + 1
                    /\ SubSeq(items, 1, Len(step.before)) = step.before

\* C10 witness: a PDF whose key matches no record was merged by DOI into one
\* record although another record matches its title.
C10_Witness ==
    /\ step.action = "merge-by-doi"
    /\ KeyMatches(step.before, step.res.citation_key) = {}
    /\ TitleMatches(step.before, step.res.title) # {}
    /\ step.target \notin TitleMatches(step.before, step.res.title)
    /\ items[step.target].citation_key = "k9"

\* the fields of a registry record
RecordFields == {"citation_key", "doi", "title", "csl", "topic"}
\* a field that holds nothing: "" for the strings, no CSL-JSON for csl
EmptyField(rec, f) == IF f = "csl" THEN rec.csl = NoCsl ELSE rec[f] = ""

\* C11: a field of a registry record that was non-empty before a PDF was
\* processed has the identical value afterwards, for every record and every
\* field among citation_key, doi, title, csl and topic, on every merge path.
C11_NoFieldReplaced ==
    step.action # "none" =>
        \A k \in 1..Len(step.before) : \A f \in RecordFields :
            ~EmptyField(step.before[k], f) =>
                (k <= Len(items) /\ items[k][f] = step.before[k][f])

\* C11 witness: a merge by DOI filled the csl of a record and left its title,
\* which differs from the title of the candidate, as it was.
C11_Witness ==
    /\ step.action = "merge-by-doi"
    /\ step.before[step.target].title = "Old"
    /\ step.res.title = "X ray"
    /\ step.before[step.target].csl = NoCsl
    /\ items[step.target].csl = Csl1
    /\ items[step.target].title = "Old"

\* an iteration of the loop has been made in this run; its PDF
Processed == step.action # "none" /\ in_i > 1
LastPdf == all_pdfs[in_i - 1]

\* C12: when the citation key K that extraction yields for a PDF already has
\* one registry record, with an empty doi, and extraction yields DOI D, then
\* after the PDF was processed that record's doi is D and the registry still
\* holds exactly one record with key K, whatever the file name of the PDF,
\* K.pdf included.
C12_DoiFilledOnLaterEncounter ==
    Processed =>
        \E res \in {Extract(LastPdf)} :
        \E K \in {KeyMatches(step.before, res.citation_key)} :
            (Cardinality(K) = 1 /\ \A k \in K : step.before[k].doi = "") =>
                /\ \A k \in K : items[k].doi = res.doi
                /\ KeyMatches(items, res.citation_key) = K

\* C13: when the extracted citation key matches no record and the extracted
\* DOI equals, after normalization of both sides, the DOI of an existing
\* record, no record is appended: the registry keeps its size and the
\* candidate is attached to a record with that DOI (its key filled in when
\* the record had none).
C13_DoiMatchAppendsNothing ==
    step.action \in Reconciliations =>
        \E K \in {KeyMatches(step.before, step.res.citation_key)} :
        \E D \in {DoiMatches(step.before, step.res.doi)} :
            (K = {} /\ D # {}) =>
                /\ Len(items) = Len(step.before)
                /\ step.target \in D
                /\ step.before[step.target].citation_key = ""
                        => items[step.target].citation_key = step.res.citation_key

\* C13 witness: a candidate with DOI 10.1000/ab was attached to the record
\* whose DOI is written as a URL, in upper case, with a trailing full stop.
C13_Witness ==
    /\ step.action = "merge-by-doi"
    /\ step.res.doi = "10.1000/ab"
    /\ step.before[step.target].doi = "https://doi.org/10.1000/AB."
    /\ step.before[step.target].citation_key = ""
    /\ items[step.target].citation_key = "smith2020xray"
    /\ Len(items) = 1

\* no two records of the registry share a citation key, the keys compared
\* trimmed and case-insensitively, empty keys excluded
UniqueKeys(reg) ==
    \A a, b \in 1..Len(reg) :
        (a # b /\ Strip(reg[a].citation_key) # "")
            => Lower(Strip(reg[a].citation_key)) # Lower(Strip(reg[b].citation_key))

\* C14: when no two records of the loaded registry share a citation key, no
\* two records share one after any sequence of ingest steps over any sequence
\* of PDFs, in memory and in the saved file.
C14_UniqueKeysKept ==
    (\A reg \in RegistryInits : UniqueKeys(reg)) => (UniqueKeys(items) /\ UniqueKeys(db))

\* C14 witness: a record without key took the key of the candidate on a title
\* match, next to a record with another key, and the registry was saved.
C14_Witness ==
    /\ in_pc = "done"
    /\ step.action = "merge-by-title"
    /\ step.before[step.target].citation_key = ""
    /\ Len(db) = 2
    /\ db = items
    /\ \A k \in 1..2 : db[k].citation_key # ""

\* the run in progress is the second one: it started from the registry file
\* and the folder the first run left
SecondRun == runs = 2

\* C15: a second run over the same PDFs against the registry of the first run
\* changes no field and appends no record (the records in memory stay those
\* of the file) and never sets changed, so the file is not rewritten.
C15_SecondRunChangesNothing ==
    SecondRun => (~changed /\ items = load_db(db))

-----------------------------------------------------------------------------
(* The indexer runs: main of src/src/14_index.py, lines 540-706.  One        *)
(* action is one iteration of the per-document loop.  A document is the      *)
(* result of read_text and parse_front_matter on a -RAG.md file: the header  *)
(* values the loop reads, the body, and the number of chunks chunk_markdown  *)
(* makes of the body.  The storage answers its queries; embedding and        *)
(* inserts may raise.                                                        *)

MaxDocs == 2
MaxIxRuns == 2

\* a -RAG.md file: md_path.stem, meta["doi"], meta["DOI"], meta["citation_key"],
\* meta["title"], the body and len(chunk_markdown(body))
IxDoc(stem, doi, DOI, key, title, body, n) ==
    [stem |-> stem, doi |-> doi, DOI |-> DOI, citation_key |-> key,
     title |-> title, body |-> body, nchunks |-> n]

Docs ==
    { IxDoc("smith2020xray-RAG", " 10.1000/ab ", "", "smith2020xray", "X ray", "b1", 1),
      IxDoc("b-RAG", "", "10.1000/cd", "", "", "b2", 1),
      IxDoc("notes-RAG", "", "", "smith2020xray", "", "b3", 2),
      IxDoc("Doc 1-RAG", "N/A", "", "", "", "b4", 0) }

\* files = [Path(args.file)] if args.file else discover_rag_files() (line 559)
DocSeqs ==
    {fs \in UNION {[1..n -> Docs] : n \in 0..MaxDocs} :
        \A a, b \in 1..Len(fs) : a # b => fs[a] # fs[b]}

\* s[-8:]
Last8(str) == CHOOSE r \in {SubSeq(s, Len(s) - 7, Len(s)) : s \in {str}} : TRUE

\* lines 599-636: doi, citation_key and title of the document after the
\* front matter was read and the synthetic identity was assigned
ResolveIdentity(doc) ==
    CHOOSE id \in
        {IF _is_real_doi(doi)
         THEN [doi |-> doi, citation_key |-> key, title |-> title]
         ELSE [doi |-> "doc:" \o Sha256Hex16(doc.body),
               citation_key |->
                   IF key = ""
                   THEN OrDefault(Keep(Lower(doc.stem), LowerAlnumChars), "doc")
                            \o Last8("doc:" \o Sha256Hex16(doc.body))
                   ELSE key,
               title |-> IF title = "" THEN doc.stem ELSE title] :
            <<doi, key, title>> \in
                {<<Strip(IF doc.doi # "" THEN doc.doi ELSE doc.DOI),
                   Strip(doc.citation_key), Strip(doc.title)>>}} : TRUE

\* paper_exists with the expression on the citation key alone
paper_exists_KeyOnly(rows, doi, citation_key) ==
    /\ citation_key # ""
    /\ \E k \in 1..Len(rows) : rows[k].citation_key = citation_key

\* paper_exists (lines 428-448), the query answered: a row whose doi equals
\* a non-empty doi or whose citation_key equals a non-empty citation_key
paper_exists(rows, doi, citation_key) ==
    /\ doi # "" \/ citation_key # ""
    /\ \E k \in 1..Len(rows) :
           \/ doi # "" /\ rows[k].doi = doi
           \/ citation_key # "" /\ rows[k].citation_key = citation_key

\* lines 643-654: the id of the first row found by doi, or by citation_key
\* when doi is empty; 0 stands for None
ExistingPaperId(rows, doi, citation_key) ==
    FirstOf({k \in 1..Len(rows) :
                IF doi # "" THEN rows[k].doi = doi
                ELSE rows[k].citation_key = citation_key})

\* insert_paper_meta (lines 451-483): one row appended, the id assigned by
\* the collection
insert_paper_meta(rows, id) ==
    Append(rows, [id |-> Len(rows) + 1, doi |-> id.doi,
                  citation_key |-> id.citation_key, title |-> id.title])

\* lines 685-696: the rows of papers_meta once paper_id is known
MetaRows(rows, id, existing) ==
    IF existing # 0 THEN rows ELSE insert_paper_meta(rows, id)
\* paper_id
PaperId(rows, existing) == IF existing # 0 THEN rows[existing].id ELSE Len(rows) + 1

\* insert_chunks (lines 486-524): one row per chunk
insert_chunks(rows, paper_id, id, n) ==
    rows \o [c \in 1..n |-> [paper_id |-> paper_id, doi |-> id.doi,
                             citation_key |-> id.citation_key,
                             chunk_index |-> c - 1]]

IXInit ==
    /\ ix_files = <<>>
    /\ ix_force = FALSE
    /\ ix_i = 0
    /\ papers_meta = <<>>
    /\ paper_chunks = <<>>
    /\ embed_calls = 0
    /\ ok_log = {}
    /\ ix_runs = 0
    /\ ix_step = NoIxStep
    /\ ix_pc = "start"
    /\ CMIdle
    /\ EMIdle
    /\ FMIdle
    /\ INIdle
    /\ CLIdle
    /\ AMIdle
    /\ RCIdle

\* lines 558-562: one invocation; without files it returns at once
IndexStart ==
    /\ ix_pc \in {"start", "done", "raised"}
    /\ ix_runs < MaxIxRuns
    /\ ix_runs' = ix_runs + 1
    /\ ix_files' \in DocSeqs
    /\ ix_force' \in BOOLEAN
    /\ ix_i' = 1
    /\ ix_step' = NoIxStep
    /\ ix_pc' = IF ix_files' = <<>> THEN "done" ELSE "loop"
    /\ UNCHANGED <<papers_meta, paper_chunks, embed_calls, ok_log>>
    /\ UNCHANGED <<cmVars, emVars, fmVars, inVars, clVars, amVars, rcVars>>

IxLoop == ix_pc = "loop" /\ ix_i <= Len(ix_files)
IxDocNow == ix_files[ix_i]
IxStepOf(action, doc, id) ==
    [action |-> action, doc |-> doc.stem, doi |-> id.doi,
     citation_key |-> id.citation_key, title |-> id.title]
\* lines 639-642: the document is not skipped
Proceeds(id) == ix_force \/ ~paper_exists(papers_meta, id.doi, id.citation_key)

\* lines 639-642: the paper exists and chunks are not forced
IndexSkip ==
    /\ IxLoop
    /\ \E id \in {ResolveIdentity(IxDocNow)} :
           /\ ~Proceeds(id)
           /\ ix_step' = IxStepOf("skip", IxDocNow, id)
    /\ ix_i' = ix_i + 1
    /\ UNCHANGED <<ix_files, ix_force, papers_meta, paper_chunks, embed_calls,
                   ok_log, ix_runs, ix_pc>>
    /\ UNCHANGED <<cmVars, emVars, fmVars, inVars, clVars, amVars, rcVars>>

\* lines 656-670: no chunk, embed_texts returns [] without a request
IndexNoVectors ==
    /\ IxLoop
    /\ IxDocNow.nchunks = 0
    /\ \E id \in {ResolveIdentity(IxDocNow)} :
           /\ Proceeds(id)
           /\ ix_step' = IxStepOf("no-vectors", IxDocNow, id)
    /\ ix_i' = ix_i + 1
    /\ UNCHANGED <<ix_files, ix_force, papers_meta, paper_chunks, embed_calls,
                   ok_log, ix_runs, ix_pc>>
    /\ UNCHANGED <<cmVars, emVars, fmVars, inVars, clVars, amVars, rcVars>>

\* the paper row inserted before the texts are embedded
RowsAtEmbed_MetaFirst(rows, id) ==
    MetaRows(rows, id, ExistingPaperId(rows, id.doi, id.citation_key))

\* lines 656-667: papers_meta when embed_texts is called; chunk_markdown and
\* the texts are computed first, no insert stands before line 667
RowsAtEmbed(rows, id) == rows

\* line 667: a request of the per-item fallback raises (lines 228-241), the
\* exception leaves embed_texts and main
IndexEmbedRaises ==
    /\ IxLoop
    /\ IxDocNow.nchunks > 0
    /\ \E id \in {ResolveIdentity(IxDocNow)} :
           /\ Proceeds(id)
           /\ papers_meta' = RowsAtEmbed(papers_meta, id)
           /\ ix_step' = IxStepOf("embed-raised", IxDocNow, id)
    /\ embed_calls' = embed_calls + 1
    /\ ix_pc' = "raised"
    /\ UNCHANGED <<ix_files, ix_force, ix_i, paper_chunks, ok_log, ix_runs>>
    /\ UNCHANGED <<cmVars, emVars, fmVars, inVars, clVars, amVars, rcVars>>

\* lines 684-696: the vectors came back, meta_coll.insert raises
IndexMetaInsertRaises ==
    /\ IxLoop
    /\ IxDocNow.nchunks > 0
    /\ \E id \in {ResolveIdentity(IxDocNow)} :
           /\ Proceeds(id)
           /\ ExistingPaperId(papers_meta, id.doi, id.citation_key) = 0
           /\ ix_step' = IxStepOf("meta-insert-raised", IxDocNow, id)
    /\ embed_calls' = embed_calls + 1
    /\ ix_pc' = "raised"
    /\ UNCHANGED <<ix_files, ix_force, ix_i, papers_meta, paper_chunks, ok_log,
                   ix_runs>>
    /\ UNCHANGED <<cmVars, emVars, fmVars, inVars, clVars, amVars, rcVars>>

\* lines 684-702: the paper row is there, then insert_chunks raises: the
\* assert of line 487 on a vector count that differs, or chunks_coll.insert
IndexChunkInsertRaises ==
    /\ IxLoop
    /\ IxDocNow.nchunks > 0
    /\ \E id \in {ResolveIdentity(IxDocNow)} :
           /\ Proceeds(id)
           /\ \E existing \in {ExistingPaperId(papers_meta, id.doi, id.citation_key)} :
                  papers_meta' = MetaRows(papers_meta, id, existing)
           /\ ix_step' = IxStepOf("chunk-insert-raised", IxDocNow, id)
    /\ embed_calls' = embed_calls + 1
    /\ ix_pc' = "raised"
    /\ UNCHANGED <<ix_files, ix_force, ix_i, paper_chunks, ok_log, ix_runs>>
    /\ UNCHANGED <<cmVars, emVars, fmVars, inVars, clVars, amVars, rcVars>>

\* lines 656-705: chunks embedded, paper row inserted or reused, chunks
\* inserted, "[ok] Indexed" printed
IndexOk ==
    /\ IxLoop
    /\ IxDocNow.nchunks > 0
    /\ \E id \in {ResolveIdentity(IxDocNow)} :
           /\ Proceeds(id)
           /\ \E existing \in {ExistingPaperId(papers_meta, id.doi, id.citation_key)} :
                  /\ papers_meta' = MetaRows(papers_meta, id, existing)
                  /\ paper_chunks' =
                         insert_chunks(paper_chunks, PaperId(papers_meta, existing),
                                       id, IxDocNow.nchunks)
           /\ ix_step' = IxStepOf("indexed", IxDocNow, id)
    /\ embed_calls' = embed_calls + 1
    /\ ok_log' = ok_log \cup {IxDocNow.stem}
    /\ ix_i' = ix_i + 1
    /\ UNCHANGED <<ix_files, ix_force, ix_runs, ix_pc>>
    /\ UNCHANGED <<cmVars, emVars, fmVars, inVars, clVars, amVars, rcVars>>

\* lines 705-706: the loop is over
IndexFinish ==
    /\ ix_pc = "loop"
    /\ ix_i > Len(ix_files)
    /\ ix_pc' = "done"
    /\ UNCHANGED <<ix_files, ix_force, ix_i, papers_meta, paper_chunks,
                   embed_calls, ok_log, ix_runs, ix_step>>
    /\ UNCHANGED <<cmVars, emVars, fmVars, inVars, clVars, amVars, rcVars>>

IXNext ==
    \/ IndexStart
    \/ IndexSkip
    \/ IndexNoVectors
    \/ IndexEmbedRaises
    \/ IndexMetaInsertRaises
    \/ IndexChunkInsertRaises
    \/ IndexOk
    \/ IndexFinish

SpecIndex == IXInit /\ [][IXNext]_vars

\* the document of the coming iteration completed in an earlier run and chunks
\* are not forced
SecondTimeUnforced == IxLoop /\ ~ix_force /\ IxDocNow.stem \in ok_log

C17_OneRowPerIdentity ==
    \A a, b \in 1..Len(papers_meta) :
        a # b =>
            /\ papers_meta[a].doi # papers_meta[b].doi
            /\ papers_meta[a].citation_key # ""
                   => papers_meta[a].citation_key # papers_meta[b].citation_key

\* C18: after the identity of a document was resolved, its doi, citation_key
\* and title are all non-empty.
C18_IdentityNonEmpty ==
    ix_step.action # "none" =>
        (ix_step.doi # "" /\ ix_step.citation_key # "" /\ ix_step.title # "")

\* C19: when a run has ended, no document stands after the last one
\* processed: a failing embedding or insert on one document does not keep the
\* documents after it in the batch from being processed.
C19_FailureDoesNotHaltRun ==
    ix_pc \in {"done", "raised"} => ix_i >= Len(ix_files)

-----------------------------------------------------------------------------
(* The project CLI: main and cmd_full_pipeline of src/main.py.  A branch of  *)
(* main is a list of calls, each the main of one step with or without an     *)
(* argument list; one action is one call.                                    *)

\* choices of the command argument (line 126)
Commands ==
    {"ingest-pdfs", "prepare-outputs", "md-with-images", "prepare-rag",
     "add-metadata", "index", "all", "full"}

\* the unknown arguments parse_known_args hands back (line 130)
Rests == {<<>>, <<"--dry-run">>, <<"--show", "3">>}

\* f() and f(argv)
NoArg == [given |-> FALSE, argv |-> <<>>]
Arg(argv) == [given |-> TRUE, argv |-> argv]
Call(stepName, arg) == [step |-> stepName, arg |-> arg]

\* cmd_full_pipeline (lines 60-120)
cmd_full_pipeline(rest) ==
    << Call("ingest-pdfs", NoArg), Call("prepare-outputs", NoArg),
       Call("md-with-images", NoArg), Call("prepare-rag", Arg(<<>>)),
       Call("add-metadata", Arg(<<>>)), Call("index", Arg(rest)) >>

\* the calls of each branch of main (lines 132-195), in order
Plan(command, rest) ==
    CASE command = "ingest-pdfs" -> << Call("ingest-pdfs", NoArg) >>
      [] command = "prepare-outputs" -> << Call("prepare-outputs", NoArg) >>
      [] command = "md-with-images" -> << Call("md-with-images", NoArg) >>
      [] command = "prepare-rag" -> << Call("prepare-rag", Arg(rest)) >>
      [] command = "add-metadata" -> << Call("add-metadata", Arg(rest)) >>
      [] command = "index" -> << Call("index", Arg(rest)) >>
      [] command = "all" ->
            << Call("ingest-pdfs", NoArg), Call("prepare-outputs", NoArg),
               Call("md-with-images", Arg(rest)) >>
      [] command = "full" -> cmd_full_pipeline(rest)

\* every step function taken to have an argv parameter
TakesArgv_Every(stepName) == stepName \in Commands

\* the step functions declared with an argv parameter: main of
\* 12_remove_refs_clean.py:125, 13_add_metada.py:160 and 14_index.py:540;
\* main of input.py:65 and of 11_create_md_with_images.py:102 and
\* prepare_output_dirs have none
TakesArgv(stepName) == stepName \in {"prepare-rag", "add-metadata", "index"}

\* the call binds to the function's parameters
Binds(call) == call.arg.given => TakesArgv(call.step)

CLInit ==
    /\ cli_command \in Commands
    /\ cli_rest \in Rests
    /\ cli_k = 0
    /\ cli_trace = <<>>
    /\ cli_pc = "run"
    /\ CMIdle
    /\ EMIdle
    /\ FMIdle
    /\ INIdle
    /\ IXIdle
    /\ AMIdle
    /\ RCIdle

CliCalling == cli_pc = "run" /\ cli_k < Len(Plan(cli_command, cli_rest))
CliCall == Plan(cli_command, cli_rest)[cli_k + 1]

\* the step runs and returns
CliStepReturns ==
    /\ CliCalling
    /\ Binds(CliCall)
    /\ cli_trace' = Append(cli_trace, [step |-> CliCall.step,
                                       argv |-> CliCall.arg.argv,
                                       outcome |-> "returned"])
    /\ cli_k' = cli_k + 1
    /\ UNCHANGED <<cli_command, cli_rest, cli_pc>>
    /\ UNCHANGED <<cmVars, emVars, fmVars, inVars, ixVars, amVars, rcVars>>

\* the step runs and raises: the exception leaves main
CliStepRaises ==
    /\ CliCalling
    /\ Binds(CliCall)
    /\ cli_trace' = Append(cli_trace, [step |-> CliCall.step,
                                       argv |-> CliCall.arg.argv,
                                       outcome |-> "raised"])
    /\ cli_pc' = "raised"
    /\ UNCHANGED <<cli_command, cli_rest, cli_k>>
    /\ UNCHANGED <<cmVars, emVars, fmVars, inVars, ixVars, amVars, rcVars>>

\* an argument handed to a function without parameter: TypeError at the
\* call, no statement of the step runs
CliTypeError ==
    /\ CliCalling
    /\ ~Binds(CliCall)
    /\ cli_pc' = "raised"
    /\ UNCHANGED <<cli_command, cli_rest, cli_k, cli_trace>>
    /\ UNCHANGED <<cmVars, emVars, fmVars, inVars, ixVars, amVars, rcVars>>

\* the branch is over, main returns
CliReturn ==
    /\ cli_pc = "run"
    /\ cli_k = Len(Plan(cli_command, cli_rest))
    /\ cli_pc' = "done"
    /\ UNCHANGED <<cli_command, cli_rest, cli_k, cli_trace>>
    /\ UNCHANGED <<cmVars, emVars, fmVars, inVars, ixVars, amVars, rcVars>>

CLNext ==
    \/ CliStepReturns
    \/ CliStepRaises
    \/ CliTypeError
    \/ CliReturn

SpecCli == CLInit /\ [][CLNext]_vars

\* the names of the steps that ran, in order
StepsRun == [k \in 1..Len(cli_trace) |-> cli_trace[k].step]
\* no step that ran raised
NoStepRaised == \A k \in 1..Len(cli_trace) : cli_trace[k].outcome = "returned"

-----------------------------------------------------------------------------
(* Further properties of chunk_markdown *)

\* the levels of the headings whose titles are on the section stack once the
\* first n lines were processed: lines 186-190 applied to levels
RECURSIVE StackLevels(_, _)
StackLevels(ls, n) ==
    IF n = 0 THEN <<>>
    ELSE IF HeadingMatch(ls[n])
         THEN Append(PopTo(StackLevels(ls, n - 1), HeadingLevel(ls[n])),
                     HeadingLevel(ls[n]))
         ELSE StackLevels(ls, n - 1)

\* C21: at every point of chunk_markdown the headings whose titles are on
\* the section stack have strictly increasing levels from bottom to top.
C21_StackLevelsIncrease ==
    \E lv \in {StackLevels(lines, i)} :
        /\ Len(lv) = Len(section_stack)
        /\ \A a, b \in 1..Len(lv) : a < b => lv[a] < lv[b]

\* the titles on the section stack once the first n lines were processed
RECURSIVE StackTitles(_, _)
StackTitles(ls, n) ==
    IF n = 0 THEN <<>>
    ELSE IF HeadingMatch(ls[n])
         THEN Append(PopTo(StackTitles(ls, n - 1), HeadingLevel(ls[n])),
                     HeadingTitle(ls[n]))
         ELSE StackTitles(ls, n - 1)

\* no heading among the first n lines
NoHeadingBefore(ls, n) == \A k \in 1..n : ~HeadingMatch(ls[k])

\* C22: the chunks a step appends carry the section path of the lines read
\* before the step (the path before the heading that ends the block is
\* applied), the empty section when no heading was read yet, and the step
\* leaves the chunks emitted earlier as they are.
C22_FlushBeforeHeading ==
    [][cm_pc = "loop" =>
          \E path \in {current_section(StackTitles(lines, i))} :
              /\ Len(chunks') >= Len(chunks)
              /\ SubSeq(chunks', 1, Len(chunks)) = chunks
              /\ \A k \in (Len(chunks) + 1)..Len(chunks') :
                     /\ chunks'[k].section = path
                     /\ NoHeadingBefore(lines, i) => chunks'[k].section = ""]_vars

\* C22 witness: the heading "## B" of the nesting body was applied after the
\* block before it was flushed under "A"; the text before "# A" of another
\* body keeps the empty section under a non-empty stack.
C22_Witness ==
    \/ /\ md_body = NestingBody
       /\ section_stack = <<"A", "B">>
       /\ block_lines = <<>>
       /\ chunks # <<>>
       /\ chunks[Len(chunks)].section = "A"
    \/ /\ md_body = "ab\n# A\nabcdefg"
       /\ section_stack = <<"A">>
       /\ Len(chunks) = 1
       /\ chunks[1].section = ""

-----------------------------------------------------------------------------
(* Further properties of the indexer runs *)

\* the rows stored under a doi
MetaRowsOf(doi) == {k \in 1..Len(papers_meta) : papers_meta[k].doi = doi}
ChunkRowsOf(doi) == {k \in 1..Len(paper_chunks) : paper_chunks[k].doi = doi}

ChunkIndexesOf(doi) == {paper_chunks[k].chunk_index : k \in ChunkRowsOf(doi)}

\* C27: when a run has ended, every document whose paper row exists has all
\* of its chunks in the chunks collection.
C27_RowHasItsChunks ==
    ix_pc \in {"done", "raised"} =>
        \A d \in Docs : \E id \in {ResolveIdentity(d)} :
            MetaRowsOf(id.doi) # {} =>
                \A c \in 0..(d.nchunks - 1) : c \in ChunkIndexesOf(id.doi)

-----------------------------------------------------------------------------
(* Ingest runs over a registry that starts empty *)

\* input_pdf.json is missing or empty when the first run starts
\* (utils.py:58-59)
INInitEmpty == INInit /\ db = <<>>
SpecIngestEmpty == INInitEmpty /\ [][INNext]_vars

\* every record has a key and a DOI, and no two records have the same DOI
\* as find_by_doi compares them
WellIdentified(reg) ==
    /\ \A k \in 1..Len(reg) : reg[k].citation_key # "" /\ reg[k].doi # ""
    /\ \A a, b \in 1..Len(reg) :
           a # b => Lower(normalize_doi(reg[a].doi)) # Lower(normalize_doi(reg[b].doi))

\* C29: starting from an empty registry, after any sequence of ingest steps
\* every record, in memory and in the file, has a non-empty citation_key and
\* a non-empty doi, and no two records have the same normalized DOI.
C29_RecordsIdentified == WellIdentified(items) /\ WellIdentified(db)

\* C29 witness: a run over an empty registry has ended whose last PDF carried,
\* in another case, the DOI of the record added before it: it was merged into
\* that record, which is the only one of the saved file.
C29_Witness ==
    /\ in_pc = "done"
    /\ step.action = "merge-by-doi"
    /\ db = items
    /\ Len(db) = 1
    /\ db[1].doi # step.res.doi

-----------------------------------------------------------------------------
(* The parts of one paragraph *)

\* the text with every whitespace character deleted
RECURSIVE NoWhitespace(_)
NoWhitespace(s) ==
    IF Len(s) = 0 THEN ""
    ELSE IF Len(s) = 1 THEN (IF IsSpace(s) THEN "" ELSE s)
    ELSE NoWhitespace(SubSeq(s, 1, Len(s) \div 2))
            \o NoWhitespace(SubSeq(s, Len(s) \div 2 + 1, Len(s)))

\* "".join(parts)
RECURSIVE Concat(_)
Concat(parts) == IF parts = <<>> THEN "" ELSE Head(parts) \o Concat(Tail(parts))

\* the texts process_block hands to _smart_split for the pending block
\* (lines 174-178)
ParaTexts(blines) ==
    {t \in {Strip(Join("\n", paras[k])) : <<paras, k>> \in
                {<<ps, n>> \in {_split_paragraphs(blines)} \X (1..Len(blines)) :
                    n <= Len(ps)}} : t # ""}

\* C30: for every paragraph text handed to _smart_split, the returned parts
\* concatenated and stripped of all whitespace give the text stripped of all
\* whitespace, every part is non-empty, and no part has leading or trailing
\* whitespace.
C30_SplitKeepsContent ==
    \A text \in ParaTexts(block_lines) :
        \E parts \in {_smart_split(text, max_text_len)} :
            /\ NoWhitespace(Concat(parts)) = NoWhitespace(text)
            /\ \A k \in 1..Len(parts) : parts[k] # "" /\ Strip(parts[k]) = parts[k]

-----------------------------------------------------------------------------
(* Title matching *)

\* a trailing file-extension-like suffix: a last period followed by letters
\* and digits only, as in "x_ray.pdf"
AfterLastDot(s) == SubSeq(s, LastDot(s, Len(s)) + 1, Len(s))
HasExtension(s) ==
    /\ LastDot(s, Len(s)) >= 1
    /\ AfterLastDot(s) # ""
    /\ Keep(AfterLastDot(s), AlnumChars) = AfterLastDot(s)
\* the words of a title after removing only such a suffix, turning '_' and
\* '-' into spaces, and case-folding
TitleWords(s) ==
    Words(Lower(ReplaceChar(ReplaceChar(IF HasExtension(s) THEN BeforeLastDot(s) ELSE s,
                                        "_", " "), "-", " ")))

\* C26: a PDF is merged into a record by title only when the two titles have
\* the same words after removing a trailing file-extension-like suffix,
\* turning '_' and '-' into spaces, collapsing whitespace and case-folding;
\* titles that agree before their last period and differ after it are not
\* matched.
C26_TitleMatchIsExact ==
    step.action = "merge-by-title" =>
        TitleWords(step.res.title) = TitleWords(step.before[step.target].title)

-----------------------------------------------------------------------------
(* add-metadata on one -RAG.md: src/src/13_add_metada.py:130-144, and the *)
(* indexer reading the file: src/src/14_index.py:598-636                   *)

\* Path.read_text: "\r\n" and "\r" are read as "\n"
RECURSIVE ReadRange(_, _, _)
ReadRange(s, a, b) ==
    IF a > b THEN ""
    ELSE IF a = b
         THEN (IF Ch(s, a) = "\r" THEN "\n"
               ELSE IF Ch(s, a) = "\n" /\ a > 1 /\ Ch(s, a - 1) = "\r" THEN ""
               ELSE Ch(s, a))
         ELSE ReadRange(s, a, (a + b) \div 2) \o ReadRange(s, (a + b) \div 2 + 1, b)
read_text(file) == CHOOSE r \in {ReadRange(s, 1, Len(s)) : s \in {file}} : TRUE

\* str.endswith("\n")
EndsWithNewline(s) == Len(s) >= 1 /\ Ch(s, Len(s)) = "\n"

\* str.lstrip("\n")
RECURSIVE LStripNewlines(_)
LStripNewlines(s) ==
    IF Len(s) >= 1 /\ Ch(s, 1) = "\n" THEN LStripNewlines(SubSeq(s, 2, Len(s))) ELSE s

\* _strip_existing_front_matter (13_add_metada.py:37-46): the body, and
\* whether a block was cut off
_strip_existing_front_matter(str) ==
    CHOOSE r \in
        {IF Len(ls) >= 3 /\ Strip(ls[1]) = "---" /\ C # {}
         THEN [body |-> Join("\n", SubSeq(ls, Min(C) + 1, Len(ls)))
                            \o (IF EndsWithNewline(text) THEN "\n" ELSE ""),
               found |-> TRUE]
         ELSE [body |-> text, found |-> FALSE] :
            <<text, ls, C>> \in
                {<<t, l, {k \in 2..Len(l) : Strip(l[k]) = "---"}>> :
                    <<t, l>> \in {<<str, splitlines(str)>>}}} : TRUE

\* _find_record_by_key (13_add_metada.py:123-127): the index of the first
\* record whose citation_key equals the key, 0 for None
_find_record_by_key(reg, key) == FirstOf({n \in 1..Len(reg) : reg[n].citation_key = key})

\* the text process_file writes (13_add_metada.py:139-142)
process_file(text, rec) ==
    build_yaml_from_record(rec)
        \o LStripNewlines(_strip_existing_front_matter(text).body)

\* parse_front_matter (14_index.py:51-95) as a function of the text: the loop
\* of lines 59-94 from line n on
RECURSIVE ParseFrom(_, _, _, _, _, _)
ParseFrom(text, ls, n, m, ckey, clist) ==
    IF n >= Len(ls) THEN UnclosedResult(m, text)
    ELSE IF FMBoundary(ls[n + 1]) THEN ClosedResult(Commit(m, ckey, clist), ls, n + 1)
    ELSE IF Strip(ls[n + 1]) = "" THEN ParseFrom(text, ls, n + 1, m, ckey, clist)
    ELSE IF KeyValMatch(ls[n + 1])
         THEN IF ValOf(ls[n + 1]) = "" \/ ValOf(ls[n + 1]) \in {"|", ">"}
              THEN ParseFrom(text, ls, n + 1, Commit(m, ckey, clist), KeyOf(ls[n + 1]),
                             [isNone |-> FALSE, items |-> <<>>])
              ELSE ParseFrom(text, ls, n + 1,
                             MetaSet(Commit(m, ckey, clist), KeyOf(ls[n + 1]),
                                     MetaScalar(Unquote(ValOf(ls[n + 1])))),
                             "", NoneList)
    ELSE IF ListItemMatch(ls[n + 1]) /\ ckey # ""
         THEN ParseFrom(text, ls, n + 1, m, ckey,
                        [isNone |-> FALSE,
                         items |-> Append(clist.items, Unquote(ItemOf(ls[n + 1])))])
    ELSE ParseFrom(text, ls, n + 1, m, ckey, clist)
parse_front_matter(text) ==
    CHOOSE r \in
        {IF ls = <<>> \/ ~FMBoundary(ls[1]) THEN [meta |-> EmptyMeta, body |-> t]
         ELSE ParseFrom(t, ls, 1, EmptyMeta, "", NoneList) :
            <<t, ls>> \in {<<text, splitlines(text)>>}} : TRUE

\* the step-by-step reader and the function give the same result
ReaderAgrees == fm_pc = "done" => fm_result = parse_front_matter(md_text)

\* meta.get(key) or "" for a scalar value
MetaStr(m, key) == IF key \in DOMAIN m /\ m[key].kind = "str" THEN m[key].str ELSE ""

\* lines 598-636: the identity under which the indexer stores the document
\* read from the file <key>-RAG.md
IndexedIdentity(text, key) ==
    CHOOSE id \in
        {ResolveIdentity(IxDoc(key \o "-RAG", MetaStr(r.meta, "doi"), MetaStr(r.meta, "DOI"),
                               MetaStr(r.meta, "citation_key"), MetaStr(r.meta, "title"),
                               r.body, 0)) :
            r \in {parse_front_matter(text)}} : TRUE

\* process_file calls made on one file
MaxCalls == 2

\* the -RAG.md files: with or without a front-matter block, with or without
\* a final newline, with "\r\n" terminators, with a page break
RagBodies == {"", "a", "a\n", "# T\n\ntext\n", "\n\na", "a\r\nb", "p1\fp2\n"}
RagHeads == {"", "---\nx: 1\n---\n", "---\ntitle: \"old\"\ndoi: \"10.1/old\"\n---\n\n"}
RagFiles == {h \o b : h \in RagHeads, b \in RagBodies}

\* the registries add-metadata loads: what an ingest run over one PDF saved
\* into an empty registry
AmRegistries ==
    {<<Record(res.citation_key, res.title, res.doi, res.csl, f.topic)>> :
        <<f, res>> \in {<<g, Extract(g)>> : g \in FileSet}}

AMInit ==
    /\ am_file \in RagFiles
    /\ am_reg \in AmRegistries
    /\ am_key \in {am_reg[1].citation_key, "other"}
    /\ am_n = 0
    /\ am_once = ""
    /\ am_id = NoId
    /\ am_pc = "ready"
    /\ CMIdle
    /\ EMIdle
    /\ FMIdle
    /\ INIdle
    /\ IXIdle
    /\ CLIdle
    /\ RCIdle

\* 13_add_metada.py:134-144: the record of the folder is found, the header
\* is written in front of the body
AMProcessFile ==
    /\ am_pc = "ready"
    /\ am_n < MaxCalls
    /\ \E r \in {_find_record_by_key(am_reg, am_key)} :
           /\ r # 0
           /\ am_file' = process_file(read_text(am_file), am_reg[r])
    /\ am_once' = IF am_n = 0 THEN am_file' ELSE am_once
    /\ am_n' = am_n + 1
    /\ UNCHANGED <<am_reg, am_key, am_id, am_pc>>
    /\ UNCHANGED <<cmVars, emVars, fmVars, inVars, ixVars, clVars, rcVars>>

\* 13_add_metada.py:134-138: no record for the folder, the file is skipped
AMSkip ==
    /\ am_pc = "ready"
    /\ am_n < MaxCalls
    /\ _find_record_by_key(am_reg, am_key) = 0
    /\ am_once' = IF am_n = 0 THEN am_file ELSE am_once
    /\ am_n' = am_n + 1
    /\ UNCHANGED <<am_file, am_reg, am_key, am_id, am_pc>>
    /\ UNCHANGED <<cmVars, emVars, fmVars, inVars, ixVars, clVars, rcVars>>

\* 14_index.py:598-636: the indexer reads the file and resolves its identity
AMIndexRead ==
    /\ am_pc = "ready"
    /\ am_id' = IndexedIdentity(read_text(am_file), am_key)
    /\ am_pc' = "indexed"
    /\ UNCHANGED <<am_file, am_reg, am_key, am_n, am_once>>
    /\ UNCHANGED <<cmVars, emVars, fmVars, inVars, ixVars, clVars, rcVars>>

AMNext == AMProcessFile \/ AMSkip \/ AMIndexRead

SpecMeta == AMInit /\ [][AMNext]_vars

\* the record process_file uses for the file, NoRecord when there is none
AmRecord ==
    IF _find_record_by_key(am_reg, am_key) = 0 THEN NoRecord
    ELSE [f \in DOMAIN NoRecord |-> am_reg[_find_record_by_key(am_reg, am_key)][f]]

\* C25: after process_file was applied twice to the same -RAG.md with the
\* same registry record, the file content is exactly the content the first
\* application left.
C25_SecondCallChangesNothing ==
    (am_n >= 2 /\ AmRecord # NoRecord) => am_file = am_once

\* C28: for a document without a real DOI, the doi under which the indexer
\* stores the document is the 'doc:' identifier of its registry record, which
\* add-metadata wrote into the front matter.
C28_SameSyntheticId ==
    (am_pc = "indexed" /\ am_n >= 1 /\ AmRecord # NoRecord /\ StartsWith(AmRecord.doi, "doc:"))
        => am_id.doi = AmRecord.doi

-----------------------------------------------------------------------------
(* Two ingest runs on one registry file: src/input/input.py:65-218 *)

\* one iteration of the loop of lines 92-212 on the registry in memory and
\* the files on disk: the registry, whether it changed, and the files after
ProcessPdf(reg, files, pdf) ==
    IF find_by_key(reg, Strip(pdf.name)) # 0
    THEN [items |-> reg, changed |-> FALSE, dir |-> files]
    ELSE CHOOSE out \in
        {IF k # 0
         THEN [items |-> [reg EXCEPT ![k] = MergeByKey(reg[k], res, pdf.topic).rec],
               changed |-> MergeByKey(reg[k], res, pdf.topic).merged,
               dir |-> Rename(files, pdf, res)]
         ELSE IF d # 0
         THEN [items |-> [reg EXCEPT ![d] = MergeByDoi(reg[d], res, pdf.topic).rec],
               changed |-> MergeByDoi(reg[d], res, pdf.topic).merged,
               dir |-> Rename(files, pdf, res)]
         ELSE IF t # 0
         THEN [items |-> [reg EXCEPT ![t] = MergeByTitle(reg[t], res, pdf.topic).rec],
               changed |-> MergeByTitle(reg[t], res, pdf.topic).merged,
               dir |-> Rename(files, pdf, res)]
         ELSE [items |-> Append(reg, Record(res.citation_key, res.title, res.doi,
                                            res.csl, pdf.topic)),
               changed |-> TRUE,
               dir |-> Rename(files, pdf, res)] :
            <<res, k, d, t>> \in
                {<<r, find_by_key(reg, r.citation_key), find_by_doi(reg, r.doi),
                   find_by_title(reg, r.title)>> : r \in {Extract(pdf)}}} : TRUE

\* the iterations of the single run are those of ProcessPdf
LoopIsProcessPdf ==
    [][InLoop => \E out \in {ProcessPdf(items, dir, Pdf)} :
                    /\ items' = out.items
                    /\ changed' = (changed \/ out.changed)
                    /\ dir' = out.dir]_vars

\* PDFs copied into the folder while the runs are under way
MaxDrops == 1
\* the two runs
RaceRuns == {1, 2}
\* the registries the file may hold when the first run starts
RaceRegistries == {<<>>, <<Record("k9", "Old", "10.1000/ab", NoCsl, "t0")>>}

\* the PDFs the two runs may find, and the folders the first run may start on
MaxRacePdfs == 1
RaceFiles == {File("paper", "", "c1"), File("b", "", "c2"), File("x ray", "", "c4")}
RaceDirs == {d \in SUBSET RaceFiles : Cardinality(d) <= MaxRacePdfs}

\* the file of the folder that has the path of a listed PDF
FileAt(files, pdf) == {f \in files : f.name = pdf.name /\ f.topic = pdf.topic}

RCInit ==
    /\ race_db \in RaceRegistries
    /\ race_dir \in RaceDirs
    /\ race_run = <<NoRun, NoRun>>
    /\ race_log = <<>>
    /\ race_drops = 0
    /\ CMIdle
    /\ EMIdle
    /\ FMIdle
    /\ INIdle
    /\ IXIdle
    /\ CLIdle
    /\ AMIdle

\* a PDF is copied into input/pdf or a topic folder
RaceDrop ==
    /\ race_drops < MaxDrops
    /\ \E f \in RaceFiles :
           /\ FileAt(race_dir, f) = {}
           /\ race_dir' = race_dir \cup {f}
    /\ race_drops' = race_drops + 1
    /\ UNCHANGED <<race_db, race_run, race_log>>
    /\ UNCHANGED <<cmVars, emVars, fmVars, inVars, ixVars, clVars, amVars>>

\* lines 65-90: a run loads the registry and lists the PDFs; with no PDF it
\* returns at once
RaceStart(r) ==
    /\ race_run[r].pc = "idle"
    /\ race_run' = [race_run EXCEPT ![r] =
                        [pc |-> IF race_dir = {} THEN "done" ELSE "loop",
                         items |-> load_db(race_db), changed |-> FALSE,
                         all_pdfs |-> ListPdfs(race_dir), i |-> 1]]
    /\ race_log' = Append(race_log, [run |-> r, op |-> "load", reg |-> load_db(race_db)])
    /\ UNCHANGED <<race_db, race_dir, race_drops>>
    /\ UNCHANGED <<cmVars, emVars, fmVars, inVars, ixVars, clVars, amVars>>

\* the run is in its loop, at a listed PDF
RaceInLoop(r) == race_run[r].pc = "loop" /\ race_run[r].i <= Len(race_run[r].all_pdfs)
RacePdf(r) == race_run[r].all_pdfs[race_run[r].i]

\* lines 92-212: one iteration of a run on the file that is at the listed path
RaceProcess(r) ==
    /\ RaceInLoop(r)
    /\ \/ find_by_key(race_run[r].items, Strip(RacePdf(r).name)) # 0
       \/ FileAt(race_dir, RacePdf(r)) # {}
    /\ \E f \in (IF FileAt(race_dir, RacePdf(r)) # {} THEN FileAt(race_dir, RacePdf(r))
                 ELSE {RacePdf(r)}) :
       \E out \in {ProcessPdf(race_run[r].items, race_dir, f)} :
           /\ race_run' = [race_run EXCEPT ![r].items = out.items,
                                           ![r].changed = (@ \/ out.changed),
                                           ![r].i = @ + 1]
           /\ race_dir' = out.dir
    /\ UNCHANGED <<race_db, race_log, race_drops>>
    /\ UNCHANGED <<cmVars, emVars, fmVars, inVars, ixVars, clVars, amVars>>

\* lines 108-109 and check_pdf.py:153: the listed PDF is no longer at its
\* path (the other run renamed it), fitz.open raises and the run ends
\* without saving
RaceMissingPdf(r) ==
    /\ RaceInLoop(r)
    /\ find_by_key(race_run[r].items, Strip(RacePdf(r).name)) = 0
    /\ FileAt(race_dir, RacePdf(r)) = {}
    /\ race_run' = [race_run EXCEPT ![r].pc = "raised"]
    /\ UNCHANGED <<race_db, race_dir, race_log, race_drops>>
    /\ UNCHANGED <<cmVars, emVars, fmVars, inVars, ixVars, clVars, amVars>>

\* lines 214-216: the registry changed, the whole file is written
RaceSave(r) ==
    /\ race_run[r].pc = "loop"
    /\ race_run[r].i > Len(race_run[r].all_pdfs)
    /\ race_run[r].changed
    /\ race_db' = save_db(race_run[r].items)
    /\ race_log' = Append(race_log, [run |-> r, op |-> "save", reg |-> race_run[r].items])
    /\ race_run' = [race_run EXCEPT ![r].pc = "done"]
    /\ UNCHANGED <<race_dir, race_drops>>
    /\ UNCHANGED <<cmVars, emVars, fmVars, inVars, ixVars, clVars, amVars>>

\* lines 217-218: nothing changed, the file is left alone
RaceNoSave(r) ==
    /\ race_run[r].pc = "loop"
    /\ race_run[r].i > Len(race_run[r].all_pdfs)
    /\ ~race_run[r].changed
    /\ race_run' = [race_run EXCEPT ![r].pc = "done"]
    /\ UNCHANGED <<race_db, race_dir, race_log, race_drops>>
    /\ UNCHANGED <<cmVars, emVars, fmVars, inVars, ixVars, clVars, amVars>>

RCNext ==
    \/ RaceDrop
    \/ \E r \in RaceRuns : RaceStart(r)
    \/ \E r \in RaceRuns : RaceProcess(r)
    \/ \E r \in RaceRuns : RaceMissingPdf(r)
    \/ \E r \in RaceRuns : RaceSave(r)
    \/ \E r \in RaceRuns : RaceNoSave(r)

SpecRace == RCInit /\ [][RCNext]_vars

\* the places of the load and of the save of a run in the log, 0 for none
LogAt(r, op) == FirstOf({k \in 1..Len(race_log) : race_log[k].run = r /\ race_log[k].op = op})
\* both runs have ended
BothEnded == \A r \in RaceRuns : race_run[r].pc \in {"done", "raised"}
\* run a saved, and run b loaded only after that save
Serialized(a, b) == LogAt(a, "save") # 0 /\ LogAt(a, "save") < LogAt(b, "load")
\* both runs saved, run a before run b, and run b had loaded before run a saved
Interleaved(a, b) ==
    /\ LogAt(a, "save") # 0
    /\ LogAt(a, "save") < LogAt(b, "save")
    /\ LogAt(b, "load") < LogAt(a, "save")
\* every record of old is in new at its place, with every field it had filled
Covers(new, old) ==
    /\ Len(new) >= Len(old)
    /\ \A k \in 1..Len(old) : \A f \in RecordFields :
           ~EmptyField(old[k], f) => new[k][f] = old[k][f]

\* C24: when both runs have ended, if the later saver had loaded the registry
\* before the earlier run saved, both runs had loaded the same registry and
\* the file is exactly the registry the later saver built from it in memory;
\* if one run loaded only after the other saved, the file holds every record
\* and every filled field of that save.
C24_LostUpdateOnlyWhenInterleaved ==
    BothEnded =>
        \A a, b \in RaceRuns :
            /\ Interleaved(a, b) =>
                   /\ race_db = race_run[b].items
                   /\ race_log[LogAt(b, "load")].reg = race_log[LogAt(a, "load")].reg
            /\ Serialized(a, b) => Covers(race_db, race_log[LogAt(a, "save")].reg)

\* C24 witness: both runs loaded before either saved, both saved, and a
\* record the earlier save wrote is in no record of the final file.
C24_Witness ==
    /\ BothEnded
    /\ \E a, b \in RaceRuns :
           /\ Interleaved(a, b)
           /\ LogAt(a, "load") < LogAt(a, "save")
           /\ \E k \in 1..Len(race_log[LogAt(a, "save")].reg) :
                  \A n \in 1..Len(race_db) :
                      race_db[n].citation_key
                          # race_log[LogAt(a, "save")].reg[k].citation_key

=============================================================================
